---- MODULE Spec2Model ----
(***************************************************************************)
(* AskDoc: a file-based work queue of inbound emails, polled by the        *)
(* orchestrator (processCycle / processEmail), which runs the import or    *)
(* question pipeline of traitement-ia under a hard timeout and sends the   *)
(* reply through email-send.                                               *)
(***************************************************************************)
EXTENDS Integers, Sequences, FiniteSets, TLC

(***************************************************************************)
(* Bounds of the model                                                     *)
(***************************************************************************)
NumItems == 1
MaxCycles == 2
MaxReplies == 2
MaxAttempts == 2
MaxUploads == 2
MaxSubjectLen == 3
MaxPrefixes == 2
MaxPages == 320
MaxAttachments == 2
MaxEntries == 3
MaxDocs == 6
MaxWords == 2
MaxMarks == 3
MaxPaths == 2

(***************************************************************************)
(* Program constants                                                       *)
(***************************************************************************)
LLM_TIMEOUT_MS == 120000
MAX_RETRIES == 3
RETRY_DELAYS == <<30000, 60000, 120000>>
LEDGER_CAP == 1000

Items == 1..NumItems
Cycles == 1..MaxCycles
Max(a, b) == IF a >= b THEN a ELSE b

NoSender == <<>>

(***************************************************************************)
(* Strings: String.prototype.toLowerCase and trim on the strings in use    *)
(***************************************************************************)
toLowerCase(s) ==
  CASE s = "Alice" -> "alice"
    [] s = "Partner.FR" -> "partner.fr"
    [] s = "(ADD)" -> "(add)"
    [] s = "(Add)" -> "(add)"
    [] s = "(PRO)" -> "(pro)"
    [] s = "(Max)" -> "(max)"
    [] s = "(High)" -> "(high)"
    [] OTHER -> s

trim(s) ==
  CASE s = "   " -> ""
    [] s = " alice" -> "alice"
    [] OTHER -> s

\* an address is the sequence of its parts around '@'
normalizeAddress(parts) == [k \in DOMAIN parts |-> toLowerCase(trim(parts[k]))]

(***************************************************************************)
(* Whitelist (config/whitelist.json)                                       *)
(***************************************************************************)
WhitelistOpen ==
  [allowed_emails |-> {<<"Alice", "corp.fr">>},
   allowed_domains |-> {[at |-> TRUE, name |-> "Partner.FR"]}]
WhitelistClosed ==
  [allowed_emails |-> {}, allowed_domains |-> {}]
WhitelistFiles == {WhitelistOpen, WhitelistClosed}

\* loadWhitelist: entries are lower-cased and trimmed
loadWhitelist(f) ==
  [allowed_emails |-> {normalizeAddress(e) : e \in f.allowed_emails},
   allowed_domains |-> {[at |-> d.at, name |-> toLowerCase(trim(d.name))] :
                          d \in f.allowed_domains}]

\* isEmailAllowed taking an empty domain list for "any domain"
isEmailAllowedOpenByDefault(emailAddress, whitelist) ==
  LET normalizedEmail == normalizeAddress(emailAddress) IN
  IF normalizedEmail \in whitelist.allowed_emails THEN TRUE
  ELSE IF Len(normalizedEmail) < 2 THEN FALSE
  ELSE LET emailDomain == normalizedEmail[2] IN
       \/ whitelist.allowed_domains = {}
       \/ [at |-> FALSE, name |-> emailDomain] \in whitelist.allowed_domains
       \/ [at |-> TRUE, name |-> emailDomain] \in whitelist.allowed_domains

isEmailAllowed(emailAddress, whitelist) ==
  LET normalizedEmail == normalizeAddress(emailAddress) IN
  IF normalizedEmail \in whitelist.allowed_emails THEN TRUE
  ELSE IF Len(normalizedEmail) < 2 THEN FALSE
  ELSE LET emailDomain == normalizedEmail[2] IN
       \/ [at |-> FALSE, name |-> emailDomain] \in whitelist.allowed_domains
       \/ [at |-> TRUE, name |-> emailDomain] \in whitelist.allowed_domains

(***************************************************************************)
(* Work items (one JSON file per inbound message in 00_mail_in)            *)
(***************************************************************************)
Alice == <<"Alice", "corp.fr">>
Bob == <<"bob", "partner.fr">>
Eve == <<"eve", "evil.org">>

QuestionSubject == <<"Contrat", "2024">>
ImportSubject == <<"(ADD)", "docs">>

\* the contents mail-reception may put in a file
Mails ==
  { [from |-> Alice, body |-> "text", subject |-> QuestionSubject, attachments |-> 0],
    [from |-> Bob, body |-> "text", subject |-> ImportSubject, attachments |-> 1],
    [from |-> Alice, body |-> "text", subject |-> ImportSubject, attachments |-> 0],
    [from |-> Alice, body |-> "   ", subject |-> QuestionSubject, attachments |-> 0],
    [from |-> NoSender, body |-> "text", subject |-> QuestionSubject, attachments |-> 0],
    [from |-> Eve, body |-> "text", subject |-> QuestionSubject, attachments |-> 0],
    [from |-> Eve, body |-> "   ", subject |-> QuestionSubject, attachments |-> 0] }

\* nextRetryIn is _nextRetryAt - Date.now(), 0 once the date has passed
NewFile == [loc |-> "input", prefix |-> "", retryCount |-> 0, nextRetryIn |-> 0]

\* subject.toLowerCase().includes(tag), a subject being its sequence of words
includesTag(subject, tag) == \E k \in DOMAIN subject : toLowerCase(subject[k]) = tag

detectFlowType(subject) == IF includesTag(subject, "(add)") THEN "import" ELSE "question"

(***************************************************************************)
(* Question pipeline (processQuestion and its three stages)                *)
(***************************************************************************)
\* document ids: those the catalog may hold, and one the model may invent
CatalogIds == {"d1"}
DocIds == CatalogIds \cup {"ghost"}

\* what the model may answer to the preselection prompt
PreResponses ==
  {[ok |-> FALSE, selected_documents |-> {}, no_relevant_docs |-> FALSE]} \cup
  [ok : {TRUE}, selected_documents : SUBSET DocIds, no_relevant_docs : BOOLEAN]

NoCalls == [preselection |-> 0, reader |-> 0, compiler |-> 0]

\* runPreselection keeping every id the model named
runPreselectionUnfiltered(docs, pre) ==
  IF docs = {}
  THEN [success |-> TRUE, selectedDocuments |-> {}, noRelevantDocs |-> TRUE, calls |-> 0]
  ELSE IF ~pre.ok
  THEN [success |-> FALSE, selectedDocuments |-> {}, noRelevantDocs |-> TRUE, calls |-> 1]
  ELSE [success |-> TRUE, selectedDocuments |-> pre.selected_documents,
        noRelevantDocs |-> pre.no_relevant_docs \/ pre.selected_documents = {},
        calls |-> 1]

runPreselection(docs, pre) ==
  IF docs = {}
  THEN [success |-> TRUE, selectedDocuments |-> {}, noRelevantDocs |-> TRUE, calls |-> 0]
  ELSE IF ~pre.ok
  THEN [success |-> FALSE, selectedDocuments |-> {}, noRelevantDocs |-> TRUE, calls |-> 1]
  ELSE LET validSelected == pre.selected_documents \cap docs IN
       [success |-> TRUE, selectedDocuments |-> validSelected,
        noRelevantDocs |-> pre.no_relevant_docs \/ validSelected = {},
        calls |-> 1]

\* what a reader may report on its document: relevant, and how many extractions
ReaderOutputs == [relevant : BOOLEAN, extractions : {0, 1}]

\* runReaders: one reader per selected document found in the store;
\* relevant[d] is what the reader of d reports
runReaders(documentIds, docs, relevant) ==
  LET found == documentIds \cap docs IN
  [results |-> [d \in found |-> relevant[d]], calls |-> Cardinality(found)]

\* runCompiler: no model call when no reader found anything
runCompiler(readerResults, compOk) ==
  IF ~(\E d \in DOMAIN readerResults :
         readerResults[d].relevant \/ readerResults[d].extractions > 0)
  THEN [success |-> TRUE, confidence0 |-> TRUE, calls |-> 0]
  ELSE [success |-> compOk, confidence0 |-> ~compOk, calls |-> 1]

QResult(success, outcome, calls) ==
  [success |-> success, flowType |-> "question", outcome |-> outcome,
   calls |-> calls]

\* processQuestion going on to the readers whenever preselection selected
\* a document, whatever it flagged
processQuestionIgnoringFlag(docs, pre, relevant, compOk) ==
  IF Cardinality(docs) = 0
  THEN QResult(FALSE, "no_documents", NoCalls)
  ELSE
  LET preselection == runPreselection(docs, pre)
      c1 == [NoCalls EXCEPT !.preselection = preselection.calls]
  IN
  IF ~preselection.success
  THEN QResult(FALSE, "preselection_failed", c1)
  ELSE IF preselection.selectedDocuments = {}
  THEN QResult(TRUE, "no_relevant_docs", c1)
  ELSE
  LET readerRun == runReaders(preselection.selectedDocuments, docs, relevant)
      c2 == [c1 EXCEPT !.reader = readerRun.calls]
      hasExtractions == \E d \in DOMAIN readerRun.results :
                          readerRun.results[d].relevant \/ readerRun.results[d].extractions > 0
  IN
  IF ~hasExtractions
  THEN QResult(TRUE, "no_extractions", c2)
  ELSE
  LET compilerResult == runCompiler(readerRun.results, compOk)
      c3 == [c2 EXCEPT !.compiler = compilerResult.calls]
  IN
  IF ~compilerResult.success
  THEN QResult(FALSE, "compiler_failed", c3)
  ELSE QResult(TRUE, "answered", c3)

processQuestion(docs, pre, relevant, compOk) ==
  IF Cardinality(docs) = 0
  THEN QResult(FALSE, "no_documents", NoCalls)
  ELSE
  LET preselection == runPreselection(docs, pre)
      c1 == [NoCalls EXCEPT !.preselection = preselection.calls]
  IN
  IF ~preselection.success
  THEN QResult(FALSE, "preselection_failed", c1)
  ELSE IF preselection.noRelevantDocs \/ preselection.selectedDocuments = {}
  THEN QResult(TRUE, "no_relevant_docs", c1)
  ELSE
  LET readerRun == runReaders(preselection.selectedDocuments, docs, relevant)
      c2 == [c1 EXCEPT !.reader = readerRun.calls]
      hasExtractions == \E d \in DOMAIN readerRun.results :
                          readerRun.results[d].relevant \/ readerRun.results[d].extractions > 0
  IN
  IF ~hasExtractions
  THEN QResult(TRUE, "no_extractions", c2)
  ELSE
  LET compilerResult == runCompiler(readerRun.results, compOk)
      c3 == [c2 EXCEPT !.compiler = compilerResult.calls]
  IN
  IF ~compilerResult.success
  THEN QResult(FALSE, "compiler_failed", c3)
  ELSE QResult(TRUE, "answered", c3)

processAskDocQuestion(email, docs, pre, relevant, compOk) ==
  IF trim(email.body) = ""
  THEN QResult(FALSE, "no_question", NoCalls)
  ELSE processQuestion(docs, pre, relevant, compOk)

(***************************************************************************)
(* Import pipeline, as far as the orchestrator sees it                     *)
(***************************************************************************)
IResult(success, outcome) ==
  [success |-> success, flowType |-> "import", outcome |-> outcome,
   calls |-> NoCalls]

\* importOk: processImport reported success (a document imported or duplicate)
processAskDocImport(email, importOk) ==
  IF email.attachments = 0
  THEN IResult(FALSE, "no_attachments")
  ELSE IF importOk THEN IResult(TRUE, "imported")
  ELSE IResult(FALSE, "import_failed")

processAskDocEmail(email, docs, pre, relevant, compOk, importOk) ==
  IF detectFlowType(email.subject) = "import"
  THEN processAskDocImport(email, importOk)
  ELSE processAskDocQuestion(email, docs, pre, relevant, compOk)

\* the catalog after the pipeline ran: a successful import persists its document
documentsAfter(email, docs, result) ==
  IF result.flowType = "import" /\ result.success THEN docs \cup {"d1"} ELSE docs

(***************************************************************************)
(* Idempotence ledger (processed_ids.json): email id -> timestamp, held    *)
(* here as the list of its ids from the most recent timestamp to the       *)
(* oldest                                                                  *)
(***************************************************************************)
\* the entries but that of emailId, in their order
without(ids, emailId) == SelectSeq(ids, LAMBDA other : other # emailId)

\* entries.sort(most recent first).slice(0, n)
mostRecentFromOldest(ids, n) ==
  IF Len(ids) <= n THEN ids ELSE SubSeq(ids, Len(ids) - n + 1, Len(ids))

mostRecent(ids, n) == IF Len(ids) <= n THEN ids ELSE SubSeq(ids, 1, n)

\* ids[emailId] = now, then keep the LEDGER_CAP most recent entries
markAsProcessed(ids, emailId) ==
  mostRecent(<<emailId>> \o without(ids, emailId), LEDGER_CAP)

isAlreadyProcessed(ids, emailId) == \E k \in DOMAIN ids : ids[k] = emailId

(***************************************************************************)
(* State                                                                   *)
(***************************************************************************)
VARIABLES
  up,             \* the orchestrator process is running
  mail,           \* content of each item file as received (its id is its index)
  file,           \* where each item file is, and its retry fields
  ledger,         \* processed_ids.json
  documents,      \* ids of the Documents in the Metadata Store
  isProcessing,   \* mutex flag of processCycle
  skippedCycles,
  pending,        \* processCycle invocations suspended on loadWhitelist
  cyc,            \* the processCycle invocations past the mutex
  background,     \* items with a pipeline execution still running after its timeout fired
  sent,           \* per item id, reply emails handed to SMTP with success
  question        \* one run of processQuestion: its inputs and its result

\* the services and stores, each exercised by a specification of its own
VARIABLES
  disk,           \* the JSON state files: path -> file
  io,             \* the write in progress on disk, and the read that follows a crash
  store,          \* rows of the documents table, in insertion order
  attempt,        \* the calls of processSinglePdf
  cache,          \* entries of the PDF cache index, by hash
  uploads,        \* uploads made for the cache; the last fileId handed out
  call,           \* the cache call that has just returned
  threads,        \* the conversation threads, by subject hash
  recording,      \* the last recordPdfsInThread call
  split,          \* one call of splitPdf
  importRun,      \* one call of processImport
  mailSubject,    \* a subject, the same behind reply prefixes, and their hashes
  zip,            \* the extraction of an archive in progress, entry after entry
  readers,        \* one call of runReaders and the readers of its batches
  flow,           \* one email through detectFlow and the stages of its flow
  processedIds,   \* processed_ids.json near its cap, and the item checked against it
  loop,           \* processCycle over the files of a listing, exceptions included
  multiQa         \* one PDF of processMultiDocumentQA, from its cache result to its URL

orchestrator == <<up, mail, file, ledger, documents, isProcessing,
                  skippedCycles, pending, cyc, background, sent>>

units ==
  <<disk, io, store, attempt, cache, uploads, call, mailSubject, threads, recording,
    split, importRun, zip, readers, flow, processedIds,
    loop, multiQa>>

vars == <<orchestrator, question, units>>

IdleCycle ==
  [pc |-> "idle", whitelist |-> loadWhitelist(WhitelistClosed), emailPaths |-> <<>>,
   i |-> 0, retryCount |-> 0]

\* the item a cycle is working on
ItemOf(c) == cyc[c].emailPaths[cyc[c].i]

NoQuestion ==
  [phase |-> "none", docs |-> {}, pre |-> CHOOSE p \in PreResponses : ~p.ok,
   relevant |-> [d \in DocIds |-> [relevant |-> FALSE, extractions |-> 0]], compOk |-> FALSE,
   result |-> QResult(FALSE, "none", NoCalls)]

\* the orchestrator just started on a directory of new files
Started ==
  /\ up = TRUE
  /\ mail \in [Items -> Mails]
  /\ file = [x \in Items |-> NewFile]
  /\ ledger = << >>
  /\ documents = {}
  /\ isProcessing = FALSE
  /\ skippedCycles = 0
  /\ pending = 0
  /\ cyc = [c \in Cycles |-> IdleCycle]
  /\ background = {}
  /\ sent = [x \in Items |-> 0]

\* a file that does not exist, and a file holding the given bytes
NoFile == [exists |-> FALSE, bytes |-> << >>]
File(bytes) == [exists |-> TRUE, bytes |-> bytes]

\* the writers of the JSON state files
Writers == {"saveIndex", "saveThread", "markAsProcessed"}

NoIo == [op |-> "none", pc |-> "idle", prev |-> NoFile, data |-> "", written |-> 0, raw |-> NoFile]

\* the Metadata Store and one call of processSinglePdf
Buffers == {"pdf-1", "pdf-2"}
Filenames == {"a.pdf", "b.pdf"}
Attempts == 1..MaxAttempts

\* createHash('sha256').update(buffer).digest('hex')
computeHash(buffer) == <<"sha256", buffer>>

\* SELECT 1 FROM documents WHERE content_hash = ?
documentExistsByFilename(rows, filename, contentHash) ==
  \E i \in DOMAIN rows : rows[i].filename = filename

documentExistsByHash(rows, filename, contentHash) ==
  \E i \in DOMAIN rows : rows[i].content_hash = contentHash

\* SELECT * FROM documents WHERE content_hash = ?
getDocumentByHash(rows, contentHash) ==
  rows[CHOOSE i \in DOMAIN rows : rows[i].content_hash = contentHash]

\* INSERT INTO documents: the table declares content_hash TEXT UNIQUE NOT
\* NULL, so stmt.run throws when a row already holds that hash
insertThrows(rows, doc) == \E i \in DOMAIN rows : rows[i].content_hash = doc.content_hash

insertDocumentUnconstrained(rows, doc) == Append(rows, doc)

insertDocument(rows, doc) == IF insertThrows(rows, doc) THEN rows ELSE Append(rows, doc)

\* what processSinglePdf returns
ProcessResult(isDuplicate, title, error) ==
  [isDuplicate |-> isDuplicate, title |-> title, error |-> error]

NoAttempt ==
  [pc |-> "idle", filename |-> "", contentHash |-> computeHash(""), uploads |-> 0,
   indexings |-> 0, result |-> ProcessResult(FALSE, "", "")]

\* the PDF cache: the entry of the index for each hash, ages in days
CACHE_TTL_DAYS == 7
DAY_MS == 24 * 60 * 60 * 1000
CACHE_TTL_MS == CACHE_TTL_DAYS * DAY_MS

\* (Date.now() - lastUsed) > CACHE_TTL_MS
isExpiredAtTtl(entry) == entry.age * DAY_MS >= CACHE_TTL_MS

isExpired(entry) == entry.age * DAY_MS > CACHE_TTL_MS

\* an index without entries
EmptyIndex == [h \in {} |-> [hash |-> h, fileId |-> 0, age |-> 0]]

NoCall ==
  [op |-> "none", hash |-> computeHash(""), rejected |-> FALSE, fileId |-> 0,
   fromCache |-> FALSE, before |-> EmptyIndex, deleteCalls |-> {},
   deleteFailed |-> {}, cleanedCount |-> 0]

\* subjects are sequences of characters; the white space is " " and "\t"
lowerChar(c) ==
  CASE c = "R" -> "r" [] c = "E" -> "e" [] c = "F" -> "f" [] c = "W" -> "w"
    [] c = "D" -> "d" [] c = "A" -> "a" [] OTHER -> c

lowerChars(s) == [k \in DOMAIN s |-> lowerChar(s[k])]

RECURSIVE trimStart(_)
trimStart(s) == IF s # << >> /\ Head(s) \in {" ", "\t"} THEN trimStart(Tail(s)) ELSE s

RECURSIVE trimEnd(_)
trimEnd(s) ==
  IF s # << >> /\ s[Len(s)] \in {" ", "\t"} THEN trimEnd(SubSeq(s, 1, Len(s) - 1)) ELSE s

\* the alternatives of /^(re|fwd|fw)[\s]*:[\s]*/i, in their order
prefixWords == <<(<<"r", "e">>), (<<"f", "w", "d">>), (<<"f", "w">>)>>

\* the pattern matches s with the given alternative
matchesWith(s, word) ==
  /\ Len(s) > Len(word)
  /\ lowerChars(SubSeq(s, 1, Len(word))) = word
  /\ LET rest == trimStart(SubSeq(s, Len(word) + 1, Len(s)))
     IN rest # << >> /\ Head(rest) = ":"

\* base.replace(prefixPattern, ''): what follows the match of the first
\* alternative that matches
replacePrefix(s) ==
  IF \E k \in DOMAIN prefixWords : matchesWith(s, prefixWords[k])
  THEN LET k == CHOOSE i \in DOMAIN prefixWords :
                  /\ matchesWith(s, prefixWords[i])
                  /\ \A j \in 1..(i - 1) : ~matchesWith(s, prefixWords[j])
           word == prefixWords[k]
       IN trimStart(Tail(trimStart(SubSeq(s, Len(word) + 1, Len(s)))))
  ELSE s

\* while (previousBase !== base) { previousBase = base; base = base.replace(...) }
RECURSIVE removePrefixes(_)
removePrefixes(base) ==
  LET replaced == replacePrefix(base)
  IN IF replaced = base THEN base ELSE removePrefixes(replaced)

extractBaseSubjectOnce(subject) ==
  IF subject = << >> THEN << >> ELSE trimEnd(trimStart(replacePrefix(trimEnd(trimStart(subject)))))

extractBaseSubject(subject) ==
  IF subject = << >> THEN << >> ELSE trimEnd(trimStart(removePrefixes(trimEnd(trimStart(subject)))))

\* createHash('sha256').update(text).digest('hex').substring(0, 16)
computeSubjectHash(subject) ==
  LET base == lowerChars(extractBaseSubject(subject))
  IN <<"sha256/16", IF base = << >> THEN <<"__empty_subject__">> ELSE base>>

NoSubject ==
  [base |-> << >>, raw |-> << >>, count |-> 0,
   baseHash |-> computeSubjectHash(<< >>), rawHash |-> computeSubjectHash(<< >>)]

\* the conversation threads, by subject hash, and the last call recorded
computePdfHash(buffer) == <<"sha256", buffer>>

NoThreads == [k \in {} |-> [base_subject |-> << >>, base_subject_hash |-> k, pdf_context |-> << >>]]

NoRecording == [subject |-> << >>, pdfs |-> << >>]

\* the split of a PDF by page count
MAX_PAGES_PER_PART == 100

\* Math.ceil(a / b) on page counts
ceilDiv(a, b) == (a + b - 1) \div b

calculatePartCount(pageCount) ==
  IF pageCount <= MAX_PAGES_PER_PART THEN 1 ELSE ceilDiv(pageCount, MAX_PAGES_PER_PART)

\* const pagesPerPart = Math.ceil(totalPages / partCount)
pagesPerPartFloor(totalPages, partCount) == totalPages \div partCount

pagesPerPart(totalPages, partCount) == ceilDiv(totalPages, partCount)

NoSplit == [pc |-> "idle", totalPages |-> 0, partCount |-> 0, i |-> 0, parts |-> << >>]

\* one call of processImport
NoImport ==
  [pc |-> "idle", attachments |-> << >>, i |-> 0,
   stats |-> [total |-> 0, imported |-> 0, duplicates |-> 0, errors |-> 0,
              ignored |-> 0, splitParts |-> 0],
   success |-> FALSE, error |-> "",
   wasSplit |-> 0, divided |-> 0, uploadedPages |-> 0]

\* extractPdfsFromZip: the limits, and the extraction before its first entry
MAX_PDF_SIZE_BYTES == 30 * 1024 * 1024
MAX_TOTAL_SIZE_BYTES == 50 * 1024 * 1024
MAX_PDF_COUNT == 10
MAX_DEPTH == 5

\* a filename is its stem and its extension; toLowerCase acts on the extension
\* seenFilenames.has(filename.toLowerCase())
isSeenExactCase(seenFilenames, filename) == filename \in seenFilenames

isSeen(seenFilenames, filename) ==
  [filename EXCEPT !.ext = IF @ = ".PDF" THEN ".pdf" ELSE @] \in seenFilenames

NoZip ==
  [pdfs |-> << >>, seenFilenames |-> {}, totalSize |-> 0,
   stats |-> [totalFiles |-> 0, pdfCount |-> 0, ignoredCount |-> 0, errorCount |-> 0,
              duplicateCount |-> 0],
   walked |-> 0, stems |-> 0, verdict |-> "none", overLimit |-> 0, laterSame |-> 0,
   laterSameInDepth |-> 0]

\* runReaders: the readers of the documents found, in batches
API_DELAY_MS == 1000
MAX_CONCURRENT_READERS == 5
READER_TIMEOUT_MS == 60000

\* runReaders before it is called
NoReaders == [pc |-> "idle", i |-> 0, slept |-> 0, reader |-> << >>, results |-> << >>]

\* detectFlow before it is called on a subject, and the stages that call the provider
Stages == {"indexing", "preselect", "read", "compile"}

NoFlow ==
  [pc |-> "idle", subject |-> << >>, flowType |-> "none", modelLevel |-> "none",
   model |-> [s \in Stages |-> "none"]]

\* processed_ids.json before any item is answered; stamp is the timestamp each
\* id was last marked with, now the clock, item the last item file checked
NoProcessedIds ==
  [ids |-> << >>, stamp |-> << >>, now |-> 0, marks |-> 0, last |-> 0,
   item |-> [id |-> 0, present |-> FALSE, loc |-> "none", dispatched |-> FALSE]]

\* processCycle over the files of one listing, before the process polls
NoLoop ==
  [pc |-> "idle", emailPaths |-> << >>, i |-> 0, isProcessing |-> FALSE, polling |-> TRUE,
   rounds |-> 0, loc |-> << >>, ids |-> {}, sent |-> << >>, handled |-> {}, threw |-> "none"]

\* no PDF of a multi-document request in hand
NoMultiQa ==
  [pc |-> "idle", hash |-> computeHash(""), fileId |-> 0, fromCache |-> FALSE,
   staleId |-> 0, newFileId |-> 0, reuploads |-> 0, url |-> 0]

\* the services at rest, but the one that is exercised
Idle(active) ==
  /\ IF active = "disk" THEN TRUE
     ELSE disk = [w \in Writers |-> [target |-> NoFile, temp |-> NoFile]] /\ io = NoIo
  /\ store = << >> /\ attempt = [a \in Attempts |-> NoAttempt]
  /\ cache = EmptyIndex /\ uploads = 0 /\ call = NoCall
  /\ IF active = "subject" THEN TRUE ELSE mailSubject = NoSubject
  /\ threads = NoThreads /\ recording = NoRecording
  /\ IF active = "split" THEN TRUE ELSE split = NoSplit
  /\ IF active = "import" THEN TRUE ELSE importRun = NoImport
  /\ IF active = "zip" THEN TRUE ELSE zip = NoZip
  /\ IF active = "readers" THEN TRUE ELSE readers = NoReaders
  /\ IF active = "flow" THEN TRUE ELSE flow = NoFlow
  /\ IF active = "ledger" THEN TRUE ELSE processedIds = NoProcessedIds
  /\ IF active = "loop" THEN TRUE ELSE loop = NoLoop
  /\ multiQa = NoMultiQa

\* what the steps of the exercised service leave alone
Frame(active) ==
  /\ UNCHANGED <<orchestrator, question>>
  /\ IF active = "disk" THEN TRUE ELSE UNCHANGED <<disk, io>>
  /\ IF active = "store" THEN TRUE ELSE UNCHANGED <<store, attempt>>
  /\ IF active \in {"cache", "multiQa"} THEN TRUE ELSE UNCHANGED <<cache, uploads, call>>
  /\ IF active = "subject" THEN TRUE ELSE UNCHANGED mailSubject
  /\ IF active = "threads" THEN TRUE ELSE UNCHANGED <<threads, recording>>
  /\ IF active = "split" THEN TRUE ELSE UNCHANGED split
  /\ IF active = "import" THEN TRUE ELSE UNCHANGED importRun
  /\ IF active = "zip" THEN TRUE ELSE UNCHANGED zip
  /\ IF active = "readers" THEN TRUE ELSE UNCHANGED readers
  /\ IF active = "flow" THEN TRUE ELSE UNCHANGED flow
  /\ IF active = "ledger" THEN TRUE ELSE UNCHANGED processedIds
  /\ IF active = "loop" THEN TRUE ELSE UNCHANGED loop
  /\ IF active = "multiQa" THEN TRUE ELSE UNCHANGED multiQa

Init == Started /\ question = NoQuestion /\ Idle("none")

\* the orchestrator at rest, while one service is exercised
AtRest ==
  /\ Started
  /\ mail = [x \in Items |-> CHOOSE m \in Mails : TRUE]
  /\ question = NoQuestion

\* every service at rest, its files and tables empty
InitServices == AtRest /\ Idle("none")

(***************************************************************************)
(* Environment                                                             *)
(***************************************************************************)
\* the process dies (kill, power loss, forced shutdown): memory is lost, the
\* files stay
Crash ==
  /\ up
  /\ \A id \in Items : sent[id] < MaxReplies
  /\ up' = FALSE
  /\ isProcessing' = FALSE
  /\ skippedCycles' = 0
  /\ pending' = 0
  /\ cyc' = [c \in Cycles |-> IdleCycle]
  /\ background' = {}
  /\ UNCHANGED <<mail, file, ledger, documents, sent, question, units>>

\* the process is started again (main)
Restart ==
  /\ ~up
  /\ up' = TRUE
  /\ UNCHANGED <<mail, file, ledger, documents, isProcessing,
                 skippedCycles, cyc, background, sent, question, units, pending>>

(***************************************************************************)
(* processCycle                                                            *)
(***************************************************************************)
\* invocations of processCycle that have not returned
Running == {c \in Cycles : cyc[c].pc # "idle"}

\* the interval timer (or main's initial call) invokes processCycle, which
\* suspends on loadWhitelist; at most MaxCycles invocations are alive at a
\* time, and at most MaxCycles start in the time one cycle takes
Tick ==
  /\ up
  /\ pending + Cardinality(Running) < MaxCycles
  /\ isProcessing => skippedCycles + pending + 1 < MaxCycles
  /\ pending' = pending + 1
  /\ UNCHANGED <<up, mail, file, ledger, documents, isProcessing,
                 skippedCycles, cyc, background, sent, question, units>>

\* loadWhitelist throws (file missing or not valid JSON at that moment): the
\* invocation returns
LoadWhitelistFails ==
  /\ pending > 0
  /\ pending' = pending - 1
  /\ UNCHANGED <<up, mail, file, ledger, documents, isProcessing,
                 skippedCycles, cyc, background, sent, question, units>>

\* processCycle without its mutex test: every invocation goes on to the items
EnterCycleNoMutex(c) ==
  /\ pending > 0
  /\ cyc[c].pc = "idle"
  /\ \A d \in Cycles : d < c => cyc[d].pc # "idle"
  /\ pending' = pending - 1
  /\ \E f \in WhitelistFiles :
       /\ isProcessing' = TRUE
       /\ skippedCycles' = 0
       /\ cyc' = [cyc EXCEPT ![c].pc = "getUnprocessedEmails",
                             ![c].whitelist = loadWhitelist(f)]
  /\ UNCHANGED <<up, mail, file, ledger, documents,
                 background, sent, question, units>>

\* loadWhitelist resolves with the content config/whitelist.json has at that
\* moment (the operator edits it at will); the mutex test and set follow
\* without suspension. The invocation that gets past the mutex is cycle c,
\* the first one free.
EnterCycle(c) ==
  /\ pending > 0
  /\ cyc[c].pc = "idle"
  /\ \A d \in Cycles : d < c => cyc[d].pc # "idle"
  /\ pending' = pending - 1
  /\ \E f \in WhitelistFiles :
       IF isProcessing
       THEN /\ skippedCycles' = skippedCycles + 1
            /\ UNCHANGED <<isProcessing, cyc>>
       ELSE /\ isProcessing' = TRUE
            /\ skippedCycles' = 0
            /\ cyc' = [cyc EXCEPT ![c].pc = "getUnprocessedEmails",
                                  ![c].whitelist = loadWhitelist(f)]
  /\ UNCHANGED <<up, mail, file, ledger, documents,
                 background, sent, question, units>>

\* readdir of the input directory, in name order
RECURSIVE pathsFrom(_, _)
pathsFrom(f, k) ==
  IF k > NumItems THEN <<>>
  ELSE (IF f[k].loc = "input" THEN <<k>> ELSE <<>>) \o pathsFrom(f, k + 1)

getUnprocessedEmails(f) == pathsFrom(f, 1)

\* the position of a cycle after processEmail returned for its current item:
\* the next path, or the end of the cycle (finally: isProcessing = false)
ReturnedWithoutFinally(c, cy) ==
  IF cy.i < Len(cy.emailPaths)
  THEN /\ cyc' = [cyc EXCEPT ![c] = [cy EXCEPT !.pc = "processEmail", !.i = cy.i + 1,
                                               !.retryCount = 0]]
       /\ UNCHANGED isProcessing
  ELSE /\ cyc' = [cyc EXCEPT ![c] = IdleCycle]
       /\ UNCHANGED isProcessing

Returned(c, cy) ==
  IF cy.i < Len(cy.emailPaths)
  THEN /\ cyc' = [cyc EXCEPT ![c] = [cy EXCEPT !.pc = "processEmail", !.i = cy.i + 1,
                                               !.retryCount = 0]]
       /\ UNCHANGED isProcessing
  ELSE /\ cyc' = [cyc EXCEPT ![c] = IdleCycle]
       /\ isProcessing' = FALSE

ListEmails(c) ==
  /\ cyc[c].pc = "getUnprocessedEmails"
  /\ LET emailPaths == getUnprocessedEmails(file) IN
     IF Len(emailPaths) = 0
     THEN /\ cyc' = [cyc EXCEPT ![c] = IdleCycle]
          /\ isProcessing' = FALSE
     ELSE /\ cyc' = [cyc EXCEPT ![c].pc = "processEmail",
                                ![c].emailPaths = emailPaths, ![c].i = 1]
          /\ UNCHANGED isProcessing
  /\ UNCHANGED <<up, mail, file, ledger, documents,
                 skippedCycles, background, sent, question, units, pending>>

(***************************************************************************)
(* processEmail                                                            *)
(***************************************************************************)
\* rename into the quarantine directory as <reason>_<filename>
moveToQuarantine(f, reason) == [f EXCEPT !.loc = "quarantine", !.prefix = reason]

\* the file is gone with its content
unlink(f) == [NewFile EXCEPT !.loc = "deleted"]

\* the address processEmail extracts from the email it has read; the whitelist
\* check and sendEmail are given this one constant
senderEmail(c) == mail[ItemOf(c)].from

\* processEmail without its whitelist check
ProcessEmailStartUnchecked(c) ==
  /\ cyc[c].pc = "processEmail"
  /\ LET id == ItemOf(c)
         email == mail[id]
     IN
     IF file[id].loc # "input"
     THEN \* readEmail throws, caught at the end of processEmail
          /\ Returned(c, cyc[c])
          /\ UNCHANGED file
     ELSE IF isAlreadyProcessed(ledger, id)
     THEN /\ file' = [file EXCEPT ![id] = unlink(@)]
          /\ Returned(c, cyc[c])
     ELSE IF trim(email.body) = ""
     THEN /\ file' = [file EXCEPT ![id] = moveToQuarantine(@, "empty_body")]
          /\ Returned(c, cyc[c])
     ELSE IF senderEmail(c) = NoSender
     THEN /\ file' = [file EXCEPT ![id] = moveToQuarantine(@, "invalid_sender")]
          /\ Returned(c, cyc[c])
     ELSE /\ cyc' = [cyc EXCEPT ![c].pc = "awaitPipeline",
                                ![c].retryCount = file[id].retryCount]
          /\ UNCHANGED <<file, isProcessing>>
  /\ UNCHANGED <<up, mail, ledger, documents, skippedCycles,
                 background, sent, question, units, pending>>

\* readEmail, idempotence check, validation, whitelist check, and the start
\* of the pipeline under Promise.race with the hard timeout
ProcessEmailStart(c) ==
  /\ cyc[c].pc = "processEmail"
  /\ LET id == ItemOf(c)
         email == mail[id]
     IN
     IF file[id].loc # "input"
     THEN \* readEmail throws, caught at the end of processEmail
          /\ Returned(c, cyc[c])
          /\ UNCHANGED file
     ELSE IF isAlreadyProcessed(ledger, id)
     THEN /\ file' = [file EXCEPT ![id] = unlink(@)]
          /\ Returned(c, cyc[c])
     ELSE IF trim(email.body) = ""
     THEN /\ file' = [file EXCEPT ![id] = moveToQuarantine(@, "empty_body")]
          /\ Returned(c, cyc[c])
     ELSE IF senderEmail(c) = NoSender
     THEN /\ file' = [file EXCEPT ![id] = moveToQuarantine(@, "invalid_sender")]
          /\ Returned(c, cyc[c])
     ELSE IF ~isEmailAllowed(senderEmail(c), cyc[c].whitelist)
     THEN /\ file' = [file EXCEPT ![id] = moveToQuarantine(@, "not_whitelisted")]
          /\ Returned(c, cyc[c])
     ELSE /\ cyc' = [cyc EXCEPT ![c].pc = "awaitPipeline",
                                ![c].retryCount = file[id].retryCount]
          /\ UNCHANGED <<file, isProcessing>>
  /\ UNCHANGED <<up, mail, ledger, documents, skippedCycles,
                 background, sent, question, units, pending>>

\* the results processAskDocEmail may return for an email and a catalog, over
\* the answers of the model and the outcome of the import
PipelineResults ==
  { [email |-> email, docs |-> docs,
     results |-> { processAskDocEmail(email, docs, pre, relevant, compOk, importOk) :
                     pre \in PreResponses, relevant \in [DocIds -> ReaderOutputs],
                     compOk \in BOOLEAN, importOk \in BOOLEAN }] :
      email \in Mails, docs \in SUBSET CatalogIds }

PossibleResults(email, docs) ==
  (CHOOSE r \in PipelineResults : r.email = email /\ r.docs = docs).results

\* processAskDocEmail settles before the timeout; if (!aiResult.success)
\* return, otherwise the reply is handed to sendEmail
PipelineReturns(c) ==
  /\ cyc[c].pc = "awaitPipeline"
  /\ \E aiResult \in PossibleResults(mail[ItemOf(c)], documents) :
       /\ documents' = documentsAfter(mail[ItemOf(c)], documents, aiResult)
       /\ IF ~aiResult.success
          THEN Returned(c, cyc[c])
          ELSE /\ cyc' = [cyc EXCEPT ![c].pc = "sendEmail"]
               /\ UNCHANGED isProcessing
  /\ UNCHANGED <<up, mail, file, ledger, skippedCycles,
                 background, sent, question, units, pending>>

\* time passes: every pending retry date comes d nearer
elapse(f, d) == [x \in DOMAIN f |-> [f[x] EXCEPT !.nextRetryIn = Max(0, @ - d)]]

\* the timeout branch with the first delay of the schedule at every retry
PipelineTimeoutFlatDelay(c) ==
  /\ cyc[c].pc = "awaitPipeline"
  /\ LET id == ItemOf(c)
         retryCount == cyc[c].retryCount
         later == elapse(file, LLM_TIMEOUT_MS)
     IN
     /\ IF retryCount < MAX_RETRIES
        THEN file' = [later EXCEPT ![id].loc = "input",
                                   ![id].retryCount = retryCount + 1,
                                   ![id].nextRetryIn = RETRY_DELAYS[1]]
        ELSE IF file[id].loc = "input"
        THEN file' = [later EXCEPT ![id] = moveToQuarantine(@, "max_retries_exceeded")]
        ELSE file' = later
     /\ background' = background \cup {id}
  /\ Returned(c, cyc[c])
  /\ UNCHANGED <<up, mail, ledger, documents, skippedCycles,
                 sent, question, units, pending>>

\* the timeout wins the race, LLM_TIMEOUT_MS after the pipeline was started:
\* retry bookkeeping in the item file, or quarantine; the pipeline execution
\* itself is not cancelled. Time is counted at the granularity of the
\* timeout: every other wait of the program is short against it.
PipelineTimeout(c) ==
  /\ cyc[c].pc = "awaitPipeline"
  /\ LET id == ItemOf(c)
         retryCount == cyc[c].retryCount
         later == elapse(file, LLM_TIMEOUT_MS)
     IN
     /\ IF retryCount < MAX_RETRIES
        THEN file' = [later EXCEPT ![id].loc = "input",
                                   ![id].retryCount = retryCount + 1,
                                   ![id].nextRetryIn = RETRY_DELAYS[retryCount + 1]]
        ELSE IF file[id].loc = "input"
        THEN file' = [later EXCEPT ![id] = moveToQuarantine(@, "max_retries_exceeded")]
        ELSE file' = later
     /\ background' = background \cup {id}
  /\ Returned(c, cyc[c])
  /\ UNCHANGED <<up, mail, ledger, documents, skippedCycles,
                 sent, question, units, pending>>

\* sendEmail resolves, with success or with a reported failure
SendEmail(c) ==
  /\ cyc[c].pc = "sendEmail"
  /\ \E ok \in BOOLEAN :
       IF ok
       THEN /\ sent' = [sent EXCEPT ![ItemOf(c)] = @ + 1]
            /\ cyc' = [cyc EXCEPT ![c].pc = "markAsProcessed"]
            /\ UNCHANGED isProcessing
       ELSE /\ Returned(c, cyc[c])
            /\ UNCHANGED sent
  /\ UNCHANGED <<up, mail, file, ledger, documents,
                 skippedCycles, background, question, units, pending>>

\* the step without its write to the ledger
MarkAsProcessedSkipped(c) ==
  /\ cyc[c].pc = "markAsProcessed"
  /\ cyc' = [cyc EXCEPT ![c].pc = "unlink"]
  /\ UNCHANGED <<up, mail, file, ledger, documents, isProcessing,
                 skippedCycles, background, sent, question, units, pending>>

MarkAsProcessed(c) ==
  /\ cyc[c].pc = "markAsProcessed"
  /\ ledger' = markAsProcessed(ledger, ItemOf(c))
  /\ cyc' = [cyc EXCEPT ![c].pc = "unlink"]
  /\ UNCHANGED <<up, mail, file, documents, isProcessing,
                 skippedCycles, background, sent, question, units, pending>>

Unlink(c) ==
  /\ cyc[c].pc = "unlink"
  /\ file' = [file EXCEPT ![ItemOf(c)] = IF @.loc = "input" THEN unlink(@) ELSE @]
  /\ Returned(c, cyc[c])
  /\ UNCHANGED <<up, mail, ledger, documents, skippedCycles,
                 background, sent, question, units, pending>>

\* an abandoned execution whose late result is answered all the same
BackgroundFinishReplying(id) ==
  /\ id \in background
  /\ background' = background \ {id}
  /\ sent' = [sent EXCEPT ![id] = IF @ < MaxReplies THEN @ + 1 ELSE @]
  /\ \E aiResult \in PossibleResults(mail[id], documents) :
       documents' = documentsAfter(mail[id], documents, aiResult)
  /\ UNCHANGED <<up, mail, file, ledger, isProcessing,
                 skippedCycles, cyc, question, units, pending>>

\* the pipeline executions of an item abandoned by their timeout come to their
\* end; nobody awaits their result
BackgroundFinish(id) ==
  /\ id \in background
  /\ background' = background \ {id}
  /\ \E aiResult \in PossibleResults(mail[id], documents) :
       documents' = documentsAfter(mail[id], documents, aiResult)
  /\ UNCHANGED <<up, mail, file, ledger, isProcessing,
                 skippedCycles, cyc, sent, question, units, pending>>

(***************************************************************************)
(* Specification of the orchestrator                                       *)
(***************************************************************************)
\* the steps of a cycle once past the mutex
Work(c) ==
  \/ ListEmails(c)
  \/ ProcessEmailStart(c)
  \/ PipelineReturns(c)
  \/ PipelineTimeout(c)
  \/ SendEmail(c)
  \/ MarkAsProcessed(c)
  \/ Unlink(c)

\* the steps of the running process
Runs ==
  \/ Tick
  \/ LoadWhitelistFails
  \/ \E c \in Cycles : EnterCycle(c)
  \/ \E c \in Cycles : Work(c)
  \/ \E id \in Items : BackgroundFinish(id)

Next ==
  \/ Crash
  \/ Restart
  \/ Runs

Spec == Init /\ [][Next]_vars

\* the process stays up; the timer keeps firing, the whitelist file is
\* readable again and again, and every await of a cycle settles
FairSpec ==
  /\ Init /\ [][Runs]_vars
  /\ WF_vars(Tick)
  /\ \A c \in Cycles : SF_vars(EnterCycle(c)) /\ WF_vars(Work(c))

\* the same, but nothing is assumed of the provider: the pipeline may never
\* settle. The timer of the race fires, the file operations settle, and
\* sendEmail settles within the timeouts of its SMTP transport
FairSpecSilentProvider ==
  /\ Init /\ [][Runs]_vars
  /\ WF_vars(Tick)
  /\ \A c \in Cycles :
       /\ SF_vars(EnterCycle(c))
       /\ WF_vars(ListEmails(c)) /\ WF_vars(ProcessEmailStart(c))
       /\ WF_vars(PipelineTimeout(c))
       /\ WF_vars(SendEmail(c)) /\ WF_vars(MarkAsProcessed(c)) /\ WF_vars(Unlink(c))

(***************************************************************************)
(* Specification of one run of the question pipeline                       *)
(***************************************************************************)
Questions ==
  [phase : {"asked"}, docs : SUBSET CatalogIds, pre : PreResponses,
   relevant : [DocIds -> ReaderOutputs], compOk : BOOLEAN,
   result : {QResult(FALSE, "none", NoCalls)}]

InitQuestion == Started /\ question \in Questions /\ Idle("none")

RunQuestion ==
  /\ question.phase = "asked"
  /\ question' = [question EXCEPT
       !.phase = "done",
       !.result = processQuestion(question.docs, question.pre,
                                  question.relevant, question.compOk)]
  /\ UNCHANGED <<orchestrator, units>>

SpecQuestion == InitQuestion /\ [][RunQuestion]_vars

(***************************************************************************)
(* Writes of the JSON state files, and a crash in the middle of one        *)
(***************************************************************************)
\* the values a state file can hold
Values == {"a", "b"}

\* JSON.stringify, as the chunks that reach the file one after the other
stringify(value) == <<"{", value, "}">>

\* the file each writer hands to writeFile: saveIndex and saveThread write
\* `${path}.tmp` and rename it, markAsProcessed writes PROCESSED_IDS_PATH itself
writtenFileOf(op) == IF op = "markAsProcessed" THEN "target" ELSE "temp"

\* the state files as some earlier run left them
InitDisk ==
  /\ AtRest /\ Idle("disk")
  /\ disk \in [Writers -> [target : {NoFile} \cup {File(stringify(v)) : v \in Values},
                           temp : {NoFile}]]
  /\ io = NoIo

\* a writer is called with new content
StartWrite(op, value) ==
  /\ io.pc = "idle"
  /\ io' = [NoIo EXCEPT !.op = op, !.pc = "open", !.prev = disk[op].target, !.data = value]
  /\ Frame("disk") /\ UNCHANGED disk

\* writeFile opens its path with flag 'w': created, or truncated
WriteFileOpen ==
  /\ io.pc = "open"
  /\ disk' = [disk EXCEPT ![io.op][writtenFileOf(io.op)] = File(<< >>)]
  /\ io' = [io EXCEPT !.pc = "write"]
  /\ Frame("disk")

\* writeFile writes the next chunk; after the last one it resolves
WriteFileChunk ==
  /\ io.pc = "write"
  /\ LET chunks == stringify(io.data)
         n == io.written + 1
     IN /\ disk' = [disk EXCEPT ![io.op][writtenFileOf(io.op)] = File(Append(@.bytes, chunks[n]))]
        /\ io' = IF n < Len(chunks) THEN [io EXCEPT !.written = n]
                 ELSE IF writtenFileOf(io.op) = "target" THEN NoIo
                 ELSE [io EXCEPT !.written = n, !.pc = "rename"]
  /\ Frame("disk")

\* rename(tempPath, path) replaces the target in one step
Rename ==
  /\ io.pc = "rename"
  /\ disk' = [disk EXCEPT ![io.op] = [target |-> @.temp, temp |-> NoFile]]
  /\ io' = NoIo
  /\ Frame("disk")

\* the process dies while a write is in progress
CrashInWrite ==
  /\ io.pc \in {"open", "write", "rename"}
  /\ io' = [io EXCEPT !.pc = "crashed"]
  /\ Frame("disk") /\ UNCHANGED disk

\* the next read of the file that was being replaced: the readFile of
\* loadIndex, loadThread or loadProcessedIds
ReadAfterCrash ==
  /\ io.pc = "crashed"
  /\ io' = [io EXCEPT !.pc = "read", !.raw = disk[io.op].target]
  /\ Frame("disk") /\ UNCHANGED disk

\* the restarted process goes on
ReadDone ==
  /\ io.pc = "read"
  /\ io' = NoIo
  /\ Frame("disk") /\ UNCHANGED disk

NextDisk ==
  \/ \E op \in Writers, v \in Values : StartWrite(op, v)
  \/ WriteFileOpen
  \/ WriteFileChunk
  \/ Rename
  \/ CrashInWrite
  \/ ReadAfterCrash
  \/ ReadDone

SpecDisk == InitDisk /\ [][NextDisk]_vars

(***************************************************************************)
(* Specification of the import attempts against the Metadata Store         *)
(***************************************************************************)
\* processSinglePdf up to its first await: the hash, the lookup, and the
\* duplicate result when the hash is already stored
ProcessSinglePdf(a, filename, buffer) ==
  /\ attempt[a].pc = "idle"
  /\ LET contentHash == computeHash(buffer)
         begun == [attempt[a] EXCEPT !.filename = filename, !.contentHash = contentHash]
     IN attempt' = [attempt EXCEPT ![a] =
          IF documentExistsByHash(store, filename, contentHash)
          THEN [begun EXCEPT !.pc = "done",
                             !.result = ProcessResult(TRUE, getDocumentByHash(store, contentHash).title, "")]
          ELSE [begun EXCEPT !.pc = "uploadPdf"]]
  /\ Frame("store") /\ UNCHANGED store

\* await mistralService.uploadPdf settles
UploadPdfSettles(a, ok) ==
  /\ attempt[a].pc = "uploadPdf"
  /\ attempt' = [attempt EXCEPT ![a] =
       IF ok THEN [@ EXCEPT !.pc = "getSignedUrl", !.uploads = @ + 1]
       ELSE [@ EXCEPT !.pc = "done", !.result = ProcessResult(FALSE, "", "upload failed")]]
  /\ Frame("store") /\ UNCHANGED store

\* await mistralService.getSignedUrl settles
GetSignedUrlSettles(a, ok) ==
  /\ attempt[a].pc = "getSignedUrl"
  /\ attempt' = [attempt EXCEPT ![a] =
       IF ok THEN [@ EXCEPT !.pc = "callIndexationIA"]
       ELSE [@ EXCEPT !.pc = "done", !.result = ProcessResult(FALSE, "", "signed url failed")]]
  /\ Frame("store") /\ UNCHANGED store

\* await callIndexationIA returns null: the attempt throws and reports it
IndexationFails(a) ==
  /\ attempt[a].pc = "callIndexationIA"
  /\ attempt' = [attempt EXCEPT ![a] =
       [@ EXCEPT !.pc = "done", !.indexings = @ + 1,
                 !.result = ProcessResult(FALSE, "", "Failed to analyze document with IA Indexation")]]
  /\ Frame("store") /\ UNCHANGED store

\* await callIndexationIA returns the metadata; the row is inserted in the
\* same turn, and a rejected insert is caught and reported
IndexationSettles(a, title) ==
  /\ attempt[a].pc = "callIndexationIA"
  /\ LET docInsert == [filename |-> attempt[a].filename, title |-> title,
                       content_hash |-> attempt[a].contentHash]
     IN /\ store' = insertDocument(store, docInsert)
        /\ attempt' = [attempt EXCEPT ![a] =
             [@ EXCEPT !.pc = "done", !.indexings = @ + 1,
                       !.result = IF insertThrows(store, docInsert)
                                  THEN ProcessResult(FALSE, "", "UNIQUE constraint failed: documents.content_hash")
                                  ELSE ProcessResult(FALSE, title, "")]]
  /\ Frame("store")

NextStore ==
  \/ \E a \in Attempts, f \in Filenames, b \in Buffers : ProcessSinglePdf(a, f, b)
  \/ \E a \in Attempts, ok \in BOOLEAN : UploadPdfSettles(a, ok)
  \/ \E a \in Attempts, ok \in BOOLEAN : GetSignedUrlSettles(a, ok)
  \/ \E a \in Attempts : IndexationFails(a)
  \/ \E a \in Attempts, t \in {"title-1", "title-2"} : IndexationSettles(a, t)

SpecStore == InitServices /\ [][NextStore]_vars

(***************************************************************************)
(* Specification of the PDF cache                                          *)
(***************************************************************************)
\* index.entries[hash] = value
setEntry(entries, hash, value) ==
  [h \in DOMAIN entries \cup {hash} |-> IF h = hash THEN value ELSE entries[h]]

\* delete index.entries[hash], for every hash of the set
deleteEntries(entries, hashes) == [h \in DOMAIN entries \ hashes |-> entries[h]]

\* getOrUpload dropping the entry it found expired before it awaits uploadFn
GetOrUploadDroppingExpired(buffer, uploadOk) ==
  LET hash == computeHash(buffer)
      hit == hash \in DOMAIN cache /\ ~isExpired(cache[hash])
      fileId == uploads + 1
      returned == [NoCall EXCEPT !.op = "getOrUpload", !.hash = hash, !.before = cache]
  IN /\ hit \/ ~uploadOk \/ uploads < MaxUploads
     /\ IF hit
        THEN /\ cache' = setEntry(cache, hash, [cache[hash] EXCEPT !.age = 0])
             /\ call' = [returned EXCEPT !.fileId = cache[hash].fileId, !.fromCache = TRUE]
             /\ UNCHANGED uploads
        ELSE IF uploadOk
        THEN /\ uploads' = fileId
             /\ cache' = setEntry(cache, hash, [hash |-> hash, fileId |-> fileId, age |-> 0])
             /\ call' = [returned EXCEPT !.fileId = fileId]
        ELSE /\ call' = [returned EXCEPT !.rejected = TRUE]
             /\ cache' = deleteEntries(cache, {hash})
             /\ UNCHANGED uploads
     /\ Frame("cache")

\* getOrUpload: an entry in its retention window is refreshed and its fileId
\* returned; otherwise uploadFn is awaited and, when it resolves, its fileId
\* is stored under the hash
GetOrUpload(buffer, uploadOk) ==
  LET hash == computeHash(buffer)
      hit == hash \in DOMAIN cache /\ ~isExpired(cache[hash])
      fileId == uploads + 1
      returned == [NoCall EXCEPT !.op = "getOrUpload", !.hash = hash, !.before = cache]
  IN /\ hit \/ ~uploadOk \/ uploads < MaxUploads
     /\ IF hit
        THEN /\ cache' = setEntry(cache, hash, [cache[hash] EXCEPT !.age = 0])
             /\ call' = [returned EXCEPT !.fileId = cache[hash].fileId, !.fromCache = TRUE]
             /\ UNCHANGED uploads
        ELSE IF uploadOk
        THEN /\ uploads' = fileId
             /\ cache' = setEntry(cache, hash, [hash |-> hash, fileId |-> fileId, age |-> 0])
             /\ call' = [returned EXCEPT !.fileId = fileId]
        ELSE /\ call' = [returned EXCEPT !.rejected = TRUE]
             /\ UNCHANGED <<cache, uploads>>
     /\ Frame("cache")

\* runCleanup: every expired entry is handed to deleteFn, whose failure is
\* swallowed, and is deleted from the index
RunCleanupKeepingFailed(failing) ==
  LET expired == {h \in DOMAIN cache : isExpired(cache[h])}
      fileIds == {cache[h].fileId : h \in expired}
  IN /\ failing \subseteq fileIds
     /\ cache' = deleteEntries(cache, {h \in expired : cache[h].fileId \notin failing})
     /\ call' = [NoCall EXCEPT !.op = "runCleanup", !.before = cache,
                               !.deleteCalls = fileIds, !.deleteFailed = failing,
                               !.cleanedCount = Cardinality(expired)]
     /\ Frame("cache") /\ UNCHANGED uploads

RunCleanup(failing) ==
  LET expired == {h \in DOMAIN cache : isExpired(cache[h])}
      fileIds == {cache[h].fileId : h \in expired}
  IN /\ failing \subseteq fileIds
     /\ cache' = deleteEntries(cache, expired)
     /\ call' = [NoCall EXCEPT !.op = "runCleanup", !.before = cache,
                               !.deleteCalls = fileIds, !.deleteFailed = failing,
                               !.cleanedCount = Cardinality(expired)]
     /\ Frame("cache") /\ UNCHANGED uploads

\* a day passes
Elapse ==
  /\ \E h \in DOMAIN cache : cache[h].age <= CACHE_TTL_DAYS
  /\ cache' = [h \in DOMAIN cache |->
                 [cache[h] EXCEPT !.age = IF @ <= CACHE_TTL_DAYS THEN @ + 1 ELSE @]]
  /\ call' = NoCall
  /\ Frame("cache") /\ UNCHANGED uploads

NextCache ==
  \/ \E b \in Buffers, ok \in BOOLEAN : GetOrUpload(b, ok)
  \/ \E failing \in SUBSET (1..MaxUploads) : RunCleanup(failing)
  \/ Elapse

SpecCache == InitServices /\ [][NextCache]_vars

(***************************************************************************)
(* Specification of the stale handles of processMultiDocumentQA            *)
(***************************************************************************)
\* step 1: the result of getOrUpload is pushed on cacheResults
CacheResult ==
  /\ multiQa.pc \in {"idle", "proceed", "failed"}
  /\ call.op = "getOrUpload" /\ ~call.rejected
  /\ multiQa' = [NoMultiQa EXCEPT !.pc = "getSignedUrl", !.hash = call.hash,
                                  !.fileId = call.fileId, !.fromCache = call.fromCache]
  /\ Frame("multiQa") /\ UNCHANGED <<cache, uploads, call>>

\* step 2: getSignedUrl(cache.fileId) resolves, or throws: the handle is stale
ResolveCached(ok) ==
  /\ multiQa.pc = "getSignedUrl"
  /\ multiQa' = IF ok THEN [multiQa EXCEPT !.pc = "proceed", !.url = multiQa.fileId]
                      ELSE [multiQa EXCEPT !.pc = "invalidateEntry", !.staleId = multiQa.fileId]
  /\ Frame("multiQa") /\ UNCHANGED <<cache, uploads, call>>

\* invalidateEntry(cache.hash): the entry of the hash, when there is one, is
\* deleted from the index and the index is saved
InvalidateEntryMarkingAsUsed ==
  /\ multiQa.pc = "invalidateEntry"
  /\ cache' = IF multiQa.hash \in DOMAIN cache
              THEN setEntry(cache, multiQa.hash, [cache[multiQa.hash] EXCEPT !.age = 0])
              ELSE cache
  /\ call' = [NoCall EXCEPT !.op = "invalidateEntry", !.hash = multiQa.hash,
                            !.before = cache]
  /\ multiQa' = [multiQa EXCEPT !.pc = "uploadPdf"]
  /\ Frame("multiQa") /\ UNCHANGED uploads

InvalidateEntry ==
  /\ multiQa.pc = "invalidateEntry"
  /\ cache' = IF multiQa.hash \in DOMAIN cache
              THEN deleteEntries(cache, {multiQa.hash})
              ELSE cache
  /\ call' = [NoCall EXCEPT !.op = "invalidateEntry", !.hash = multiQa.hash,
                            !.before = cache]
  /\ multiQa' = [multiQa EXCEPT !.pc = "uploadPdf"]
  /\ Frame("multiQa") /\ UNCHANGED uploads

\* this.uploadPdf(pdf.buffer, pdf.filename), not through the cache: the file
\* is uploaded again, or the upload throws and the request fails
ReuploadPdf(ok) ==
  /\ multiQa.pc = "uploadPdf"
  /\ uploads <= MaxUploads
  /\ IF ok
     THEN /\ uploads' = uploads + 1
          /\ multiQa' = [multiQa EXCEPT !.pc = "getSignedUrlAgain",
                                        !.newFileId = uploads + 1,
                                        !.reuploads = @ + 1]
     ELSE /\ multiQa' = [multiQa EXCEPT !.pc = "failed"]
          /\ UNCHANGED uploads
  /\ Frame("multiQa") /\ UNCHANGED <<cache, call>>

\* getSignedUrl(newFileId), then cache.fileId = newFileId and
\* cache.fromCache = false; a throw here fails the request
ResolveReuploaded(ok) ==
  /\ multiQa.pc = "getSignedUrlAgain"
  /\ multiQa' = IF ok THEN [multiQa EXCEPT !.pc = "proceed", !.url = multiQa.newFileId,
                                           !.fileId = multiQa.newFileId,
                                           !.fromCache = FALSE]
                      ELSE [multiQa EXCEPT !.pc = "failed"]
  /\ Frame("multiQa") /\ UNCHANGED <<cache, uploads, call>>

NextMultiQa ==
  \/ \E b \in Buffers, ok \in BOOLEAN : GetOrUpload(b, ok)
  \/ CacheResult
  \/ \E ok \in BOOLEAN : ResolveCached(ok)
  \/ InvalidateEntry
  \/ \E ok \in BOOLEAN : ReuploadPdf(ok)
  \/ \E ok \in BOOLEAN : ResolveReuploaded(ok)

SpecMultiQa == InitServices /\ [][NextMultiQa]_vars

(***************************************************************************)
(* Specification of the thread key of a subject and of its replies         *)
(***************************************************************************)
SubjectChars == {"R", "e", "f", "w", ":", " ", "a"}

RECURSIVE StringsUpTo(_)
StringsUpTo(n) ==
  IF n = 0 THEN {<< >>}
  ELSE LET shorter == StringsUpTo(n - 1)
       IN shorter \cup {Append(s, c) : s \in {t \in shorter : Len(t) = n - 1},
                                       c \in SubjectChars}

\* reply and forward prefixes as mail clients write them
ReplyPrefixes ==
  { <<"R", "E", ":">>,
    <<"r", "e", " ", ":", " ">>,
    <<"F", "w", ":", " ">>,
    <<"F", "W", "D", ":">>,
    <<"f", "w", "d", " ", ":">> }

\* a mail with some subject starts a conversation
InitSubject ==
  /\ AtRest /\ Idle("subject")
  /\ \E s \in StringsUpTo(MaxSubjectLen) :
    mailSubject = [base |-> s, raw |-> s, count |-> 0,
               baseHash |-> computeSubjectHash(s), rawHash |-> computeSubjectHash(s)]

\* the mailSubject comes back with one more prefix and is hashed again
Reply(prefix) ==
  /\ mailSubject.count < MaxPrefixes
  /\ mailSubject' = [mailSubject EXCEPT !.raw = prefix \o @, !.count = @ + 1,
                                !.rawHash = computeSubjectHash(prefix \o mailSubject.raw)]
  /\ Frame("subject")

NextSubject == \E p \in ReplyPrefixes : Reply(p)

SpecSubject == InitSubject /\ [][NextSubject]_vars

(***************************************************************************)
(* Specification of the conversation threads                               *)
(***************************************************************************)
\* two conversations, the first one under three spellings of its subject
ThreadSubjects ==
  { <<"a">>,
    <<"F", "w", ":", "r", "e", " ", ":", "A">>,
    <<"e">> }

PdfAttachments ==
  { [filename |-> "a.pdf", buffer |-> "pdf-1"],
    [filename |-> "b.pdf", buffer |-> "pdf-1"],
    [filename |-> "b.pdf", buffer |-> "pdf-2"] }


\* the loop over pdfs: a PDF is pushed unless its hash is in existingHashes
RECURSIVE addPdfsByFilename(_, _)
RECURSIVE addPdfs(_, _)
addPdfsByFilename(pdf_context, pdfs) ==
  IF pdfs = << >> THEN pdf_context
  ELSE LET pdf == Head(pdfs)
           existingFilenames == {pdf_context[i].filename : i \in DOMAIN pdf_context}
       IN addPdfsByFilename(
            IF pdf.filename \in existingFilenames THEN pdf_context
            ELSE Append(pdf_context, [filename |-> pdf.filename,
                                      hash |-> computePdfHash(pdf.buffer)]),
            Tail(pdfs))

addPdfs(pdf_context, pdfs) ==
  IF pdfs = << >> THEN pdf_context
  ELSE LET pdf == Head(pdfs)
           pdfHash == computePdfHash(pdf.buffer)
           existingHashes == {pdf_context[i].hash : i \in DOMAIN pdf_context}
       IN addPdfs(
            IF pdfHash \in existingHashes THEN pdf_context
            ELSE Append(pdf_context, [filename |-> pdf.filename, hash |-> pdfHash]),
            Tail(pdfs))

\* recordPdfsInThread: the thread of the subject is loaded or created, the
\* PDFs are added and the thread is saved under its subject hash
RecordPdfsInThread(subj, pdfs) ==
  /\ pdfs # << >>
  /\ \E subjectHash \in {computeSubjectHash(subj)} :
     \E thread \in {IF subjectHash \in DOMAIN threads THEN threads[subjectHash]
                    ELSE [base_subject |-> extractBaseSubject(subj),
                          base_subject_hash |-> subjectHash, pdf_context |-> << >>]} :
     \E saved \in {[thread EXCEPT !.pdf_context = addPdfs(thread.pdf_context, pdfs)]} :
       threads' = [k \in DOMAIN threads \cup {subjectHash} |->
                     IF k = saved.base_subject_hash THEN saved ELSE threads[k]]
  /\ recording' = [subject |-> subj, pdfs |-> pdfs]
  /\ Frame("threads")

NextThreads ==
  \E s \in ThreadSubjects :
    \E pdfs \in {<<p>> : p \in PdfAttachments} \cup {<<p, q>> : p, q \in PdfAttachments} :
      RecordPdfsInThread(s, pdfs)

SpecThreads == InitServices /\ [][NextThreads]_vars

(***************************************************************************)
(* Specification of splitPdf                                               *)
(***************************************************************************)
\* splitPdf is called on a document of some page count
InitSplit ==
  /\ AtRest /\ Idle("split")
  /\ \E totalPages \in 0..MaxPages :
    split = [NoSplit EXCEPT !.pc = "load", !.totalPages = totalPages]

\* PDFDocument.load resolves: the part count is computed, and a document
\* that needs one part is returned as it is
LoadPdf ==
  /\ split.pc = "load"
  /\ LET partCount == calculatePartCount(split.totalPages)
     IN split' = IF partCount = 1
                 THEN [split EXCEPT !.pc = "returned", !.partCount = 1,
                         !.parts = << [partIndex |-> 0, totalParts |-> 1,
                                       pageStart |-> 1, pageEnd |-> split.totalPages] >>]
                 ELSE [split EXCEPT !.pc = "loop", !.partCount = partCount]
  /\ Frame("split")

\* one turn of the loop over the parts: the pages of part i are copied into
\* a new document, which is saved
CopyPart ==
  /\ split.pc = "loop"
  /\ split.i < split.partCount
  /\ LET perPart == pagesPerPart(split.totalPages, split.partCount)
         startPage == split.i * perPart
         last == (split.i + 1) * perPart
         endPage == IF last <= split.totalPages THEN last ELSE split.totalPages
     IN /\ startPage < split.totalPages
        /\ split' = [split EXCEPT
             !.i = @ + 1,
             !.parts = Append(@, [partIndex |-> split.i, totalParts |-> split.partCount,
                                  pageStart |-> startPage + 1, pageEnd |-> endPage])]
  /\ Frame("split")

\* the loop ends, at partCount or at the first part that would be empty, and
\* the parts are returned
ReturnParts ==
  /\ split.pc = "loop"
  /\ \/ split.i >= split.partCount
     \/ split.i * pagesPerPart(split.totalPages, split.partCount) >= split.totalPages
  /\ split' = [split EXCEPT !.pc = "returned"]
  /\ Frame("split")

NextSplit == LoadPdf \/ CopyPart \/ ReturnParts

SpecSplit == InitSplit /\ [][NextSplit]_vars

\* the number of pages of a part
pagesOf(part) == part.pageEnd - part.pageStart + 1

RECURSIVE sumOfPages(_)
sumOfPages(parts) == IF parts = << >> THEN 0 ELSE pagesOf(Head(parts)) + sumOfPages(Tail(parts))

\* the parts cover pages 1..totalPages in order, without gap or overlap,
\* none of them empty or longer than the limit
CoversAllPages(parts, totalPages) ==
  /\ parts # << >>
  /\ parts[1].pageStart = 1
  /\ parts[Len(parts)].pageEnd = totalPages
  /\ \A k \in 1..(Len(parts) - 1) : parts[k + 1].pageStart = parts[k].pageEnd + 1
  /\ sumOfPages(parts) = totalPages
  /\ \A k \in DOMAIN parts : pagesOf(parts[k]) <= 100 /\ pagesOf(parts[k]) >= 1

(***************************************************************************)
(* Specification of processImport                                          *)
(***************************************************************************)
\* an attachment: a PDF, a file that is neither a PDF nor a ZIP, or a ZIP
\* with the PDFs its extraction gives, or whose extraction throws
AttachmentKinds ==
  { [kind |-> "pdf", pdfs |-> 1, ignoredCount |-> 0],
    [kind |-> "other", pdfs |-> 0, ignoredCount |-> 0],
    [kind |-> "zip", pdfs |-> 0, ignoredCount |-> 1],
    [kind |-> "zip", pdfs |-> 2, ignoredCount |-> 0],
    [kind |-> "zip throws", pdfs |-> 0, ignoredCount |-> 0] }

RECURSIVE AttachmentLists(_)
AttachmentLists(n) ==
  IF n = 0 THEN {<< >>}
  ELSE LET shorter == AttachmentLists(n - 1)
       IN shorter \cup {Append(s, a) : s \in {t \in shorter : Len(t) = n - 1},
                                       a \in AttachmentKinds}

\* Check any PDF > 1MB for potential split
needsSplit(sizeBytes) == sizeBytes > 1 * 1024 * 1024

\* the buffers processImport hands to processSinglePdf for a PDF of that size
\* and page count: the parts splitPdf returns, or the PDF itself
partsOf(sizeBytes, pages) == IF needsSplit(sizeBytes) THEN calculatePartCount(pages) ELSE 1

\* what happens to one PDF, of the size and page count given: splitPdf throws,
\* or each of its parts (the PDF itself when it was not handed to splitPdf)
\* gets a result
PdfOutcomes ==
  LET PdfResults == {"imported", "duplicate", "error"}
      Sizes == {1 * 1024 * 1024, 1 * 1024 * 1024 + 1}
      Pages == {MAX_PAGES_PER_PART, MAX_PAGES_PER_PART + 1, 2 * MAX_PAGES_PER_PART + 50}
  IN {[size |-> 1 * 1024 * 1024 + 1, pages |-> 0, splitThrows |-> TRUE, results |-> << >>]}
     \cup UNION {{[size |-> size, pages |-> pages, splitThrows |-> FALSE, results |-> r] :
                    r \in [1..partsOf(size, pages) -> PdfResults]} :
                 size \in Sizes, pages \in Pages}

\* the counting of the results of one PDF
RECURSIVE count(_, _)
count(stats, results) ==
  IF results = << >> THEN stats
  ELSE count(
         CASE Head(results) = "duplicate" -> [stats EXCEPT !.duplicates = @ + 1]
           [] Head(results) = "error" -> [stats EXCEPT !.errors = @ + 1]
           [] OTHER -> [stats EXCEPT !.imported = @ + 1],
         Tail(results))

\* the collection of the PDFs to process, attachment after attachment
RECURSIVE collect(_, _)
collect(attachments, acc) ==
  IF attachments = << >> \/ acc.threw THEN acc
  ELSE LET a == Head(attachments)
       IN collect(Tail(attachments),
            CASE a.kind = "zip throws" -> [acc EXCEPT !.threw = TRUE, !.isZip = TRUE]
              [] a.kind = "zip" -> [acc EXCEPT !.isZip = TRUE, !.pdfs = @ + a.pdfs,
                                               !.ignored = a.ignoredCount]
              [] a.kind = "pdf" -> [acc EXCEPT !.pdfs = @ + 1]
              [] OTHER -> [acc EXCEPT !.ignored = @ + 1])

\* success: hasResults || stats.errors === 0
successAllOrNothing(stats) == stats.errors = 0

successOf(stats) == (stats.imported > 0 \/ stats.duplicates > 0) \/ stats.errors = 0

InitImport ==
  /\ AtRest /\ Idle("import")
  /\ \E attachments \in AttachmentLists(MaxAttachments) :
    importRun = [NoImport EXCEPT !.pc = "collect", !.attachments = attachments]

\* the attachments are sorted out up to the first await: a ZIP that cannot
\* be extracted and an import without any PDF return at once
CollectPdfs ==
  /\ importRun.pc = "collect"
  /\ LET got == collect(importRun.attachments,
                        [threw |-> FALSE, isZip |-> FALSE, pdfs |-> 0, ignored |-> 0])
     IN importRun' =
          IF got.threw
          THEN [importRun EXCEPT !.pc = "returned", !.success = FALSE,
                  !.stats.ignored = got.ignored,
                  !.error = "Failed to extract ZIP archive"]
          ELSE IF got.pdfs = 0
          THEN [importRun EXCEPT !.pc = "returned", !.success = FALSE,
                  !.stats.ignored = got.ignored,
                  !.error = "No PDF files found to import"]
          ELSE [importRun EXCEPT !.pc = "process", !.stats.total = got.pdfs,
                  !.stats.ignored = got.ignored]
  /\ Frame("import")

\* one turn of the loop over pdfsToProcess. Beside the stats, the run keeps
\* what the documents pushed say and what the PDFs were: how many documents
\* carry wasSplit, how many parts come from PDFs divided in more than one
\* part, and the longest buffer uploaded and indexed, in pages.
ProcessPdf(outcome) ==
  /\ importRun.pc = "process"
  /\ importRun.i < importRun.stats.total
  /\ LET toSplit == needsSplit(outcome.size)
         partCount == partsOf(outcome.size, outcome.pages)
         pagesOfPart == IF toSplit THEN pagesPerPart(outcome.pages, partCount)
                        ELSE outcome.pages
         imported == \E k \in DOMAIN outcome.results : outcome.results[k] = "imported"
     IN importRun' = [importRun EXCEPT
          !.i = @ + 1,
          !.stats = IF outcome.splitThrows THEN [@ EXCEPT !.errors = @ + 1]
                    ELSE count([@ EXCEPT !.splitParts =
                                    IF toSplit THEN @ + Len(outcome.results) ELSE @],
                               outcome.results),
          !.wasSplit = IF toSplit /\ ~outcome.splitThrows THEN @ + Len(outcome.results) ELSE @,
          !.divided = IF ~outcome.splitThrows /\ calculatePartCount(outcome.pages) > 1 /\ toSplit
                      THEN @ + partCount ELSE @,
          !.uploadedPages = IF imported THEN Max(@, pagesOfPart) ELSE @]
  /\ Frame("import")

\* the loop is over and the result is returned
ReturnImportResult ==
  /\ importRun.pc = "process"
  /\ importRun.i = importRun.stats.total
  /\ importRun' = [importRun EXCEPT !.pc = "returned", !.success = successOf(importRun.stats)]
  /\ Frame("import")

NextImport ==
  \/ CollectPdfs
  \/ \E o \in PdfOutcomes : ProcessPdf(o)
  \/ ReturnImportResult

SpecImport == InitImport /\ [][NextImport]_vars

(***************************************************************************)
(* Specification of extractPdfsFromZip, entry after entry                  *)
(***************************************************************************)
\* the entries an archive can hold next: a directory, an OS-metadata file, a
\* hidden file, a text file, and PDFs of a new stem or of the first one, in
\* either case, of some number of path components and some size
ZipEntries ==
  {[kind |-> k, stem |-> 0, ext |-> "", parts |-> 1, size |-> 1, getDataThrows |-> FALSE] :
     k \in {"directory", "__MACOSX", "dotfile"}}
  \cup {[kind |-> "file", stem |-> 0, ext |-> ".txt", parts |-> p, size |-> 1,
         getDataThrows |-> FALSE] : p \in {1, MAX_DEPTH + 2}}
  \cup [kind : {"file"}, stem : {1, zip.stems + 1}, ext : {".pdf", ".PDF"},
        parts : {MAX_DEPTH, MAX_DEPTH + 1, MAX_DEPTH + 2},
        size : {1, MAX_PDF_SIZE_BYTES, MAX_PDF_SIZE_BYTES + 1},
        getDataThrows : {FALSE}]
  \cup {[kind |-> "file", stem |-> zip.stems + 1, ext |-> ".pdf", parts |-> 1, size |-> 1,
         getDataThrows |-> TRUE]}

\* the extraction after its first n entries, n small PDFs of different names
\* at the root of the archive, all extracted
InitZip ==
  /\ AtRest /\ Idle("zip")
  /\ \E n \in 0..MAX_PDF_COUNT :
       zip = [NoZip EXCEPT
                !.pdfs = [k \in 1..n |-> [kind |-> "file", stem |-> k, ext |-> ".pdf",
                                          parts |-> 1, size |-> 1]],
                !.seenFilenames = {[stem |-> k, ext |-> ".pdf"] : k \in 1..n},
                !.totalSize = n,
                !.stats.totalFiles = n,
                !.stats.pdfCount = n,
                !.stems = n,
                !.verdict = IF n = 0 THEN "none" ELSE "extracted"]

\* one turn of the loop over zip.getEntries(); the verdict names the branch
\* taken. Apart from the code's own counters, overLimit counts the PDFs that
\* are more than MAX_DEPTH folders deep, or come after MAX_PDF_COUNT PDFs, or
\* are too large, alone or with the PDFs before them; laterSame counts the
\* PDFs that bear the filename of a retained one, and laterSameInDepth those
\* of them that pass the depth check
WalkEntry(entry) ==
  /\ zip.walked < MaxEntries
  /\ LET filename == [stem |-> entry.stem, ext |-> entry.ext]
         lower == [filename EXCEPT !.ext = IF @ = ".PDF" THEN ".pdf" ELSE @]
         isPdf == lower.ext = ".pdf"
         counted == entry.kind = "file"
         deep == entry.parts > MAX_DEPTH
         verdict ==
           CASE ~counted -> "skipped"
             [] deep -> "too deep"
             [] ~isPdf -> "not a pdf"
             [] isSeen(zip.seenFilenames, filename) -> "duplicate"
             [] Len(zip.pdfs) >= MAX_PDF_COUNT -> "max count"
             [] entry.getDataThrows -> "getData throws"
             [] entry.size > MAX_PDF_SIZE_BYTES -> "too large"
             [] zip.totalSize + entry.size > MAX_TOTAL_SIZE_BYTES -> "total exceeded"
             [] OTHER -> "extracted"
         retained == \E k \in DOMAIN zip.pdfs :
                       zip.pdfs[k].stem = entry.stem /\ zip.pdfs[k].ext \in {".pdf", ".PDF"}
     IN zip' = [zip EXCEPT
          !.walked = @ + 1,
          !.stems = IF entry.stem > @ THEN entry.stem ELSE @,
          !.verdict = verdict,
          !.pdfs = IF verdict = "extracted"
                   THEN Append(@, [kind |-> entry.kind, stem |-> entry.stem,
                                   ext |-> entry.ext, parts |-> entry.parts,
                                   size |-> entry.size])
                   ELSE @,
          !.seenFilenames = IF verdict = "extracted" THEN @ \cup {lower} ELSE @,
          !.totalSize = IF verdict = "extracted" THEN @ + entry.size ELSE @,
          !.stats.totalFiles = IF counted THEN @ + 1 ELSE @,
          !.stats.pdfCount = IF verdict = "extracted" THEN @ + 1 ELSE @,
          !.stats.ignoredCount = IF verdict \in {"too deep", "not a pdf"} THEN @ + 1 ELSE @,
          !.stats.duplicateCount = IF verdict = "duplicate" THEN @ + 1 ELSE @,
          !.stats.errorCount =
             IF verdict \in {"max count", "getData throws", "too large", "total exceeded"}
             THEN @ + 1 ELSE @,
          !.overLimit =
             IF counted /\ isPdf /\ (\/ entry.parts - 1 > MAX_DEPTH
                                     \/ verdict \in {"max count", "too large",
                                                      "total exceeded"})
             THEN @ + 1 ELSE @,
          !.laterSame = IF counted /\ isPdf /\ retained THEN @ + 1 ELSE @,
          !.laterSameInDepth = IF counted /\ isPdf /\ retained /\ ~deep THEN @ + 1 ELSE @]
  /\ Frame("zip")

NextZip == \E entry \in ZipEntries : WalkEntry(entry)

SpecZip == InitZip /\ [][NextZip]_vars

(***************************************************************************)
(* Specification of runReaders and of the readDocument calls of its        *)
(* batches                                                                 *)
(***************************************************************************)
\* the documents of documents.slice(i, i + MAX_CONCURRENT_READERS)
batchOf(i, n) == {d \in 1..n : i < d /\ d <= i + MAX_CONCURRENT_READERS}

\* what readDocument returns: the parsed answer of the model, or the result
\* of its catch block
resultOf(d, answer) ==
  IF answer = "valid"
  THEN [documentId |-> d, relevant |-> TRUE, extractions |-> 1, confidence |-> 85,
        error |-> ""]
  ELSE [documentId |-> d, relevant |-> FALSE, extractions |-> 0, confidence |-> 0,
        error |-> answer]

\* getDocumentsByIds found some documents of the selection
InitReaders ==
  /\ AtRest /\ Idle("readers")
  /\ \E n \in 0..MaxDocs :
       readers = [NoReaders EXCEPT
         !.pc = "called",
         !.reader = [d \in 1..n |->
                       [pc |-> "waiting", outstanding |-> FALSE, timer |-> 0,
                        result |-> [documentId |-> 0, relevant |-> FALSE, extractions |-> 0,
                                    confidence |-> 0, error |-> "not returned"]]]]

\* batch.map(...): every reader of the batch is behind its sleep(index * API_DELAY_MS)
startBatch(r, i) ==
  [r EXCEPT !.pc = "batch", !.i = i,
            !.reader = [d \in DOMAIN @ |->
                          IF d \in batchOf(i, Len(@))
                          THEN [@[d] EXCEPT !.pc = "sleep", !.timer = (d - i - 1) * API_DELAY_MS]
                          ELSE @[d]]]

\* runReaders is entered: without documents it returns at once
EnterRunReaders ==
  /\ readers.pc = "called"
  /\ readers' = IF Len(readers.reader) = 0 THEN [readers EXCEPT !.pc = "returned"]
                ELSE startBatch(readers, 0)
  /\ Frame("readers")

\* the sleep before a reader ends, the shortest first: readDocument is called
\* and asks for the signed URL of the document
ReadDocument(d) ==
  /\ readers.pc = "batch"
  /\ d \in DOMAIN readers.reader
  /\ readers.reader[d].pc = "sleep"
  /\ \A e \in DOMAIN readers.reader :
       readers.reader[e].pc = "sleep" => readers.reader[e].timer >= readers.reader[d].timer
  /\ readers' = [readers EXCEPT !.reader[d].pc = "getSignedUrl", !.reader[d].timer = 0]
  /\ Frame("readers")

\* client.files.getSignedUrl settles: the chat completion is requested and
\* the timeout is armed, or the catch block returns
GetSignedUrlReturns(d, ok) ==
  /\ readers.reader[d].pc = "getSignedUrl"
  /\ readers' = [readers EXCEPT
       !.reader[d] = IF ok THEN [@ EXCEPT !.pc = "race", !.outstanding = TRUE,
                                          !.timer = READER_TIMEOUT_MS]
                     ELSE [@ EXCEPT !.pc = "done", !.result = resultOf(d, "request failed")]]
  /\ Frame("readers")

\* the provider answers a chat completion, or the request fails; the reader
\* that still waits for it returns
ChatCompleteSettles(d, answer) ==
  /\ readers.reader[d].outstanding
  /\ readers' = [readers EXCEPT
       !.reader[d] = IF @.pc = "race"
                     THEN [@ EXCEPT !.pc = "done", !.outstanding = FALSE, !.timer = 0,
                                    !.result = resultOf(d, answer)]
                     ELSE [@ EXCEPT !.outstanding = FALSE]]
  /\ Frame("readers")

\* the timeout of the race fires, READER_TIMEOUT_MS after the request, so
\* after the start of every reader of the batch: the request is left as it is
ReaderTimeout(d) ==
  /\ d \in DOMAIN readers.reader
  /\ readers.reader[d].pc = "race"
  /\ \A e \in DOMAIN readers.reader : readers.reader[e].pc # "sleep"
  /\ readers' = [readers EXCEPT
       !.reader[d] = [@ EXCEPT !.pc = "done", !.timer = 0,
                               !.result = resultOf(d, "Reader timeout")]]
  /\ Frame("readers")

\* Promise.allSettled(batchPromises) resolves: the results of the batch are
\* pushed, and the loop goes on with the sleep before the next batch or ends
BatchSettlesDroppingFailures ==
  /\ readers.pc = "batch"
  /\ \A d \in batchOf(readers.i, Len(readers.reader)) : readers.reader[d].pc = "done"
  /\ LET n == Len(readers.reader)
         last == IF readers.i + MAX_CONCURRENT_READERS < n
                 THEN readers.i + MAX_CONCURRENT_READERS ELSE n
         values == [k \in 1..(last - readers.i) |-> readers.reader[readers.i + k].result]
         kept[k \in 0..Len(values)] ==
           IF k = 0 THEN << >>
           ELSE IF values[k].error = "" THEN Append(kept[k - 1], values[k]) ELSE kept[k - 1]
     IN readers' = [readers EXCEPT
          !.results = @ \o kept[Len(values)],
          !.i = @ + MAX_CONCURRENT_READERS,
          !.pc = IF readers.i + MAX_CONCURRENT_READERS < n THEN "sleep" ELSE "returned"]
  /\ Frame("readers")

BatchSettles ==
  /\ readers.pc = "batch"
  /\ \A d \in batchOf(readers.i, Len(readers.reader)) : readers.reader[d].pc = "done"
  /\ LET n == Len(readers.reader)
         last == IF readers.i + MAX_CONCURRENT_READERS < n
                 THEN readers.i + MAX_CONCURRENT_READERS ELSE n
         values == [k \in 1..(last - readers.i) |-> readers.reader[readers.i + k].result]
     IN readers' = [readers EXCEPT
          !.results = @ \o values,
          !.i = @ + MAX_CONCURRENT_READERS,
          !.pc = IF readers.i + MAX_CONCURRENT_READERS < n THEN "sleep" ELSE "returned"]
  /\ Frame("readers")

\* await sleep(API_DELAY_MS) between two batches is over: the next batch starts
NextBatch ==
  /\ readers.pc = "sleep"
  /\ readers' = [startBatch(readers, readers.i) EXCEPT !.slept = @ + 1]
  /\ Frame("readers")

NextReaders ==
  \/ EnterRunReaders
  \/ \E d \in DOMAIN readers.reader : ReadDocument(d)
  \/ \E d \in DOMAIN readers.reader, ok \in BOOLEAN : GetSignedUrlReturns(d, ok)
  \/ \E d \in DOMAIN readers.reader :
       \E answer \in {"valid", "Failed to parse reader response", "request failed"} :
         ChatCompleteSettles(d, answer)
  \/ \E d \in DOMAIN readers.reader : ReaderTimeout(d)
  \/ BatchSettles
  \/ NextBatch

SpecReaders == InitReaders /\ [][NextReaders]_vars

\* timers fire and the code between the awaits runs; the provider owes nothing
FairSpecReaders ==
  /\ SpecReaders
  /\ WF_vars(EnterRunReaders)
  /\ \A d \in 1..MaxDocs : WF_vars(ReadDocument(d)) /\ WF_vars(ReaderTimeout(d))
  /\ WF_vars(BatchSettles)
  /\ WF_vars(NextBatch)

(***************************************************************************)
(* Flow router (detectFlow) and the model each stage calls the provider    *)
(* with                                                                    *)
(***************************************************************************)
extractModelLevel(subject) ==
  IF includesTag(subject, "(max)") THEN "max"
  ELSE IF includesTag(subject, "(pro)") THEN "pro"
  ELSE "standard"

getModelName(level) ==
  CASE level = "max" -> "mistral-large-latest"
    [] level = "pro" -> "mistral-medium-latest"
    [] OTHER -> "mistral-small-latest"

\* the words a subject is made of: the tags in several cases, and plain words
SubjectWords ==
  {"(add)", "(Add)", "(pro)", "(PRO)", "(max)", "(Max)", "(medium)", "(High)", "contrat"}

\* processAskDocEmail is called with an email whose subject has up to MaxWords words
InitFlow ==
  /\ AtRest /\ Idle("flow")
  /\ \E n \in 0..MaxWords : \E s \in [1..n -> SubjectWords] :
       flow = [NoFlow EXCEPT !.pc = "received", !.subject = s]

DetectFlow ==
  /\ flow.pc = "received"
  /\ flow' = [flow EXCEPT !.pc = "detected",
                          !.flowType = detectFlowType(flow.subject),
                          !.modelLevel = extractModelLevel(flow.subject)]
  /\ Frame("flow")

\* each stage builds its request with getModelName(modelLevel)
IndexDocument ==
  /\ flow.pc = "detected" /\ flow.flowType = "import"
  /\ flow' = [flow EXCEPT !.pc = "done",
                          !.model["indexing"] = getModelName(flow.modelLevel)]
  /\ Frame("flow")

RunPreselection ==
  /\ flow.pc = "detected" /\ flow.flowType = "question"
  /\ flow' = [flow EXCEPT !.pc = "preselected",
                          !.model["preselect"] = getModelName(flow.modelLevel)]
  /\ Frame("flow")

RunReaders ==
  /\ flow.pc = "preselected"
  /\ flow' = [flow EXCEPT !.pc = "read",
                          !.model["read"] = getModelName(flow.modelLevel)]
  /\ Frame("flow")

RunCompiler ==
  /\ flow.pc = "read"
  /\ flow' = [flow EXCEPT !.pc = "done",
                          !.model["compile"] = getModelName(flow.modelLevel)]
  /\ Frame("flow")

NextFlow ==
  \/ DetectFlow
  \/ IndexDocument
  \/ RunPreselection
  \/ RunReaders
  \/ RunCompiler

SpecFlow == InitFlow /\ [][NextFlow]_vars

(***************************************************************************)
(* Specification of the idempotence ledger near its cap                    *)
(***************************************************************************)
\* the ledger after n items were answered, one after the other: item i was
\* marked at time i, and the LEDGER_CAP latest are kept
InitLedger ==
  /\ AtRest /\ Idle("ledger")
  /\ \E n \in {0, 1, LEDGER_CAP - 1, LEDGER_CAP, LEDGER_CAP + 1} :
       processedIds = [NoProcessedIds EXCEPT
         !.ids = [k \in 1..(IF n <= LEDGER_CAP THEN n ELSE LEDGER_CAP) |-> n + 1 - k],
         !.stamp = [i \in 1..n |-> i],
         !.now = n]

\* the ids an item may carry: the first one ever answered, the oldest and the
\* newest of the ledger, and one never seen
ItemIds ==
  LET ids == processedIds.ids
  IN {1, Len(processedIds.stamp) + 1} \cup
     (IF ids = << >> THEN {} ELSE {ids[1], ids[Len(ids)]})

\* markAsProcessed(emailId), after the reply of the item was sent: the clock
\* has moved on since the call before
MarkAsProcessedCall(emailId) ==
  /\ processedIds.marks < MaxMarks
  /\ LET now == processedIds.now + 1
         known == Len(processedIds.stamp)
     IN processedIds' = [processedIds EXCEPT
          !.ids = markAsProcessed(@, emailId),
          !.stamp = [i \in 1..Max(known, emailId) |-> IF i = emailId THEN now ELSE @[i]],
          !.now = now,
          !.marks = @ + 1,
          !.last = emailId,
          !.item = NoProcessedIds.item]
  /\ Frame("ledger")

\* processEmail on the item file of emailId, up to its idempotence check
IdempotenceCheck(emailId) ==
  /\ processedIds' = [processedIds EXCEPT
       !.last = 0,
       !.item = IF isAlreadyProcessed(processedIds.ids, emailId)
                THEN [id |-> emailId, present |-> TRUE, loc |-> "deleted",
                      dispatched |-> FALSE]
                ELSE [id |-> emailId, present |-> FALSE, loc |-> "input",
                      dispatched |-> TRUE]]
  /\ Frame("ledger")

NextLedger ==
  \/ \E emailId \in ItemIds : MarkAsProcessedCall(emailId)
  \/ \E emailId \in ItemIds : IdempotenceCheck(emailId)

SpecLedger == InitLedger /\ [][NextLedger]_vars

(***************************************************************************)
(* Specification of processCycle over several files, with the exceptions   *)
(* processEmail may meet at each of its awaits                             *)
(***************************************************************************)
\* how one call of processEmail may go. A step named "... throws" raises an
\* exception there; sendEmail reports its failures and never throws.
Courses ==
  {"readEmail throws", "skipped", "skip unlink throws",
   "quarantined", "moveToQuarantine throws",
   "pipeline throws", "pipeline fails", "timeout", "timeout writeFile throws",
   "sendEmail fails", "markAsProcessed throws", "unlink throws", "answered"}

Throwing ==
  {"readEmail throws", "skip unlink throws", "moveToQuarantine throws", "pipeline throws",
   "timeout writeFile throws", "markAsProcessed throws", "unlink throws"}

\* the process polls a directory of n new files; the ledger may hold the id of
\* a file that is still there
InitLoop ==
  /\ AtRest /\ Idle("loop")
  /\ \E n \in 1..MaxPaths : \E ids \in SUBSET (1..n) :
       loop = [NoLoop EXCEPT !.loc = [x \in 1..n |-> "input"], !.ids = ids,
                             !.sent = [x \in 1..n |-> 0]]

\* a tick of the poll timer past the mutex: isProcessing = true, then the
\* listing of the input directory
StartCycle ==
  /\ loop.polling /\ loop.pc = "idle" /\ loop.rounds < MaxCycles
  /\ LET found == {x \in DOMAIN loop.loc : loop.loc[x] = "input"}
         emailPaths == [k \in 1..Cardinality(found) |->
                          CHOOSE x \in found : Cardinality({y \in found : y < x}) = k - 1]
     IN loop' = [loop EXCEPT !.rounds = @ + 1, !.emailPaths = emailPaths, !.handled = {},
                             !.threw = "none",
                             !.isProcessing = emailPaths # << >>,
                             !.pc = IF emailPaths = << >> THEN "idle" ELSE "loop",
                             !.i = IF emailPaths = << >> THEN 0 ELSE 1]
  /\ Frame("loop")

\* what processEmail does to the file, the ledger and the replies along a course
processEmail(state, x, course) ==
  CASE course \in {"skipped", "answered"} ->
         [state EXCEPT !.loc[x] = "deleted",
                       !.ids = IF course = "answered" THEN @ \cup {x} ELSE @,
                       !.sent[x] = IF course = "answered" THEN @ + 1 ELSE @]
    [] course = "quarantined" -> [state EXCEPT !.loc[x] = "quarantine"]
    [] course = "markAsProcessed throws" -> [state EXCEPT !.sent[x] = @ + 1]
    [] course = "unlink throws" -> [state EXCEPT !.sent[x] = @ + 1, !.ids = @ \cup {x}]
    [] OTHER -> state

\* the courses open to the file x: the idempotence check comes right after
\* readEmail
coursesOf(state, x) ==
  IF x \in state.ids
  THEN {"readEmail throws", "skipped", "skip unlink throws"}
  ELSE Courses \ {"skipped", "skip unlink throws"}

\* the loop after processEmail returned, finally included
nextEmail(state) ==
  IF state.i < Len(state.emailPaths)
  THEN [state EXCEPT !.i = @ + 1]
  ELSE [state EXCEPT !.pc = "idle", !.i = 0, !.isProcessing = FALSE]

\* an exception that leaves processEmail ends the loop in the catch of
\* processCycle
ProcessEmailUncaught(course) ==
  /\ loop.pc = "loop"
  /\ LET x == loop.emailPaths[loop.i]
         after == processEmail(loop, x, course)
         done == [after EXCEPT !.handled = @ \cup {x},
                               !.threw = IF course \in Throwing THEN course ELSE "none"]
     IN /\ course \in coursesOf(loop, x)
        /\ loop' = IF course \in Throwing
                   THEN [done EXCEPT !.pc = "idle", !.i = 0, !.isProcessing = FALSE]
                   ELSE nextEmail(done)
  /\ Frame("loop")

\* await processEmail(emailPaths[i], whitelist): an exception is caught and
\* logged by processEmail itself
ProcessEmail(course) ==
  /\ loop.pc = "loop"
  /\ LET x == loop.emailPaths[loop.i]
         after == processEmail(loop, x, course)
     IN /\ course \in coursesOf(loop, x)
        /\ loop' = nextEmail([after EXCEPT
                      !.handled = @ \cup {x},
                      !.threw = IF course \in Throwing THEN course ELSE "none"])
  /\ Frame("loop")

NextLoop ==
  \/ StartCycle
  \/ \E course \in Courses : ProcessEmail(course)

SpecLoop == InitLoop /\ [][NextLoop]_vars

(***************************************************************************)
(* Properties                                                              *)
(***************************************************************************)
\* a step in which a suspended invocation of processCycle resumes
Resumes == pending' < pending /\ up'

\* a step of the running process that moves cycle c on
Advances(c) == up' /\ cyc'[c] # cyc[c]

\* a step in which processEmail returns for the item of cycle c
ProcessEmailReturns(c) ==
  /\ cyc[c].pc \in {"processEmail", "awaitPipeline", "sendEmail",
                    "markAsProcessed", "unlink"}
  /\ up'
  /\ cyc'[c].pc \in {"idle", "processEmail"}
  /\ cyc'[c] # cyc[c]

\* a step in which the pipeline of cycle c's item is started
Dispatches(c) == cyc[c].pc = "processEmail" /\ cyc'[c].pc = "awaitPipeline"

\* a step in which the pipeline of cycle c's item settles before the timeout
PipelineSettles(c) == cyc[c].pc = "awaitPipeline" /\ Advances(c) /\ file' = file

\* the address is an entry of the whitelist, or its domain is
Listed(address, whitelist) ==
  \/ \E e \in whitelist.allowed_emails : e = normalizeAddress(address)
  \/ \E d \in whitelist.allowed_domains : d.name = normalizeAddress(address)[2]

\* C1: for every work item id, over any sequence of cycles and
\* crash-restarts, at most one reply email is ever sent.
AtMostOneReply == \A id \in Items : sent[id] <= 1

\* C2: at any time at most one pipeline execution is running, counting the
\* executions whose hard timeout has already fired.
OnePipelineAtATime ==
  Cardinality({c \in Cycles : cyc[c].pc = "awaitPipeline"})
    + Cardinality(background) <= 1

EveryItemTerminates ==
  \A id \in Items :
    (file[id].loc = "input") ~> (sent[id] > 0 \/ file[id].loc = "quarantine")

\* C5: a timeout finds the item file in the input directory; with fewer than
\* 3 retries behind it, it adds exactly one to the retry counter and sets the
\* next retry date 30 s, 60 s, 120 s from now for the first, second and third
\* retry; with 3 retries behind it, it moves the file to quarantine with
\* prefix max_retries_exceeded; and the retry counter never exceeds 3.
TimeoutSchedule ==
  /\ [](\A id \in Items : file[id].retryCount <= 3)
  /\ [][\A c \in Cycles : PipelineTimeout(c) =>
          LET id == ItemOf(c)
              r == file[id].retryCount
          IN
          /\ file[id].loc = "input"
          /\ r < 3 =>
               /\ file'[id].loc = "input"
               /\ file'[id].retryCount = r + 1
               /\ file'[id].nextRetryIn =
                    (CASE r = 0 -> 30000 [] r = 1 -> 60000 [] r = 2 -> 120000)
          /\ r = 3 =>
               /\ file'[id].loc = "quarantine"
               /\ file'[id].prefix = "max_retries_exceeded"
               /\ file'[id].retryCount = 3]_vars

\* an item that timed out four times is in quarantine
QuarantinedAfterRetries ==
  \E id \in Items :
    /\ file[id].loc = "quarantine"
    /\ file[id].prefix = "max_retries_exceeded"
    /\ file[id].retryCount = 3

\* C6: after a timeout has set the next retry date, the item is not
\* dispatched to a pipeline again before that date.
NoDispatchBeforeRetryDate ==
  [][\A c \in Cycles : Dispatches(c) => file[ItemOf(c)].nextRetryIn = 0]_vars

\* the validation failures that do not depend on the whitelist
ValidationFailure(email) ==
  \/ trim(email.body) = ""
  \/ email.from = NoSender
  \/ detectFlowType(email.subject) = "import" /\ email.attachments = 0

\* C7: a validation failure is terminal: when processEmail returns for such
\* an item, the item is in quarantine (and so is never processed again).
ValidationFailureIsTerminal ==
  [][\A c \in Cycles :
       (ProcessEmailReturns(c) /\ ValidationFailure(mail[ItemOf(c)])
          /\ file[ItemOf(c)].loc = "input" /\ ~isAlreadyProcessed(ledger, ItemOf(c)))
       => file'[ItemOf(c)].loc = "quarantine"]_vars

\* what C8 says processEmail does with the item of cycle c
QuarantinedNotWhitelisted(c) ==
  /\ file'[ItemOf(c)] = [file[ItemOf(c)] EXCEPT !.loc = "quarantine",
                                                 !.prefix = "not_whitelisted"]
  /\ cyc'[c].pc # "awaitPipeline"
  /\ UNCHANGED <<sent, ledger, documents, background>>

\* C8 as stated: for an item whose sender is not in the whitelist loaded for
\* the current cycle, the file is moved to quarantine as not_whitelisted_<name>,
\* no pipeline call is made, no reply is sent, the ledger is left alone.
NotWhitelistedIsQuarantined ==
  [][\A c \in Cycles :
       (cyc[c].pc = "processEmail" /\ Advances(c)
          /\ file[ItemOf(c)].loc = "input"
          /\ mail[ItemOf(c)].from # NoSender
          /\ ~Listed(mail[ItemOf(c)].from, cyc[c].whitelist))
       => QuarantinedNotWhitelisted(c)]_vars

\* C8 amended: the same for an item that is not in the ledger and has a
\* non-empty body.
NotWhitelistedValidIsQuarantined ==
  [][\A c \in Cycles :
       (cyc[c].pc = "processEmail" /\ Advances(c)
          /\ file[ItemOf(c)].loc = "input"
          /\ ~isAlreadyProcessed(ledger, ItemOf(c))
          /\ trim(mail[ItemOf(c)].body) # ""
          /\ mail[ItemOf(c)].from # NoSender
          /\ ~Listed(mail[ItemOf(c)].from, cyc[c].whitelist))
       => QuarantinedNotWhitelisted(c)]_vars

\* an item with a body and a sender was quarantined as not whitelisted, with
\* no reply and no ledger entry
NotWhitelistedInQuarantine ==
  \E id \in Items :
    /\ trim(mail[id].body) # ""
    /\ mail[id].from # NoSender
    /\ file[id].loc = "quarantine"
    /\ file[id].prefix = "not_whitelisted"
    /\ sent[id] = 0
    /\ ~isAlreadyProcessed(ledger, id)

\* C9: a question asked while the catalog is empty is a successful pipeline
\* result: when the pipeline settles, the processor goes on to send the reply.
EmptyCatalogIsAnswered ==
  [][\A c \in Cycles :
       (PipelineSettles(c) /\ documents = {}
          /\ detectFlowType(mail[ItemOf(c)].subject) = "question")
       => cyc'[c].pc = "sendEmail"]_vars

\* C10: with an empty catalog the question pipeline makes no model call at
\* all; when preselection answers and flags no relevant document, or names no
\* document of the catalog, no reader and no compiler call is made and the
\* result is a success.
EarlyTerminationMakesNoCalls ==
  question.phase = "done" =>
    /\ question.docs = {} => question.result.calls = NoCalls
    /\ (/\ question.docs # {}
        /\ question.pre.ok
        /\ \/ question.pre.no_relevant_docs
           \/ question.pre.selected_documents \cap question.docs = {})
       => /\ question.result.calls.reader = 0
          /\ question.result.calls.compiler = 0
          /\ question.result.success

\* preselection named a document of the catalog and flagged no relevant
\* document: the pipeline stopped there
FlaggedWithSelection ==
  /\ question.phase = "done"
  /\ question.docs # {}
  /\ question.pre.ok
  /\ question.pre.no_relevant_docs
  /\ question.pre.selected_documents \cap question.docs # {}
  /\ question.result.calls.preselection = 1
  /\ question.result.success

\* C11: after a crash during a write of the cache index, of a thread file
\* or of the processed-id ledger, the next read of that file finds either
\* the complete previous content or the complete new content
CrashLeavesOldOrNew ==
  io.pc = "read" => io.raw \in {io.prev, File(stringify(io.data))}

\* C12: an import attempt that starts when a Document with the same content
\* hash is stored ends at once as a duplicate carrying the stored metadata,
\* whatever its filename, with no upload, no indexing call and no new row
DuplicateOfStoredHash ==
  [][\A a \in Attempts :
       (/\ attempt[a].pc = "idle"
        /\ attempt'[a].pc # "idle"
        /\ \E i \in DOMAIN store : store[i].content_hash = attempt'[a].contentHash)
       => /\ attempt'[a].pc = "done"
          /\ attempt'[a].result.isDuplicate
          /\ attempt'[a].result.error = ""
          /\ \E i \in DOMAIN store :
               /\ store[i].content_hash = attempt'[a].contentHash
               /\ attempt'[a].result.title = store[i].title
          /\ attempt'[a].uploads = 0
          /\ attempt'[a].indexings = 0
          /\ store' = store]_vars

\* the same bytes were imported under one filename and then found to be a
\* duplicate under another
DuplicateUnderOtherFilename ==
  \E a, b \in Attempts :
    /\ attempt[a].pc = "done" /\ attempt[b].pc = "done"
    /\ attempt[a].contentHash = attempt[b].contentHash
    /\ attempt[a].filename # attempt[b].filename
    /\ attempt[a].result = ProcessResult(FALSE, attempt[a].result.title, "")
    /\ attempt[a].result.title # ""
    /\ attempt[b].result.isDuplicate
    /\ attempt[b].result.title = attempt[a].result.title
    /\ attempt[b].uploads = 0

\* C13: no two rows of the documents table hold the same content hash,
\* whatever the interleaving of the import attempts
UniqueContentHash ==
  \A i, j \in DOMAIN store : store[i].content_hash = store[j].content_hash => i = j

\* two attempts on the same bytes both passed the lookup; one inserted the
\* row and the insert of the other was rejected
ConcurrentInsertRejected ==
  \E a, b \in Attempts :
    /\ attempt[a].contentHash = attempt[b].contentHash
    /\ attempt[a].pc = "done" /\ attempt[b].pc = "done"
    /\ attempt[a].uploads = 1 /\ attempt[b].uploads = 1
    /\ attempt[a].result.error = "" /\ ~attempt[a].result.isDuplicate
    /\ attempt[b].result.error = "UNIQUE constraint failed: documents.content_hash"
    /\ Len(store) = 1

\* C14: a getOrUpload call made while the index holds an entry for the same
\* bytes inside the retention window makes no upload, returns the stored
\* fileId with fromCache = true and refreshes lastUsedAt; and after every
\* call the index holds one entry per hash, the one stored under that hash
SecondCallWithinWindowIsHit ==
  [][/\ \A h \in DOMAIN cache' : cache'[h].hash = h
     /\ \A b \in Buffers :
          LET h == computeHash(b) IN
            (/\ call'.op = "getOrUpload" /\ call'.hash = h
             /\ h \in DOMAIN cache
             /\ cache[h].age * DAY_MS <= CACHE_TTL_MS)
            => /\ ~call'.rejected
               /\ call'.fromCache
               /\ call'.fileId = cache[h].fileId
               /\ uploads' = uploads
               /\ h \in DOMAIN cache'
               /\ cache'[h].fileId = cache[h].fileId
               /\ cache'[h].age = 0]_vars

\* the second call for the same bytes has just returned from the cache: one
\* upload was made in all
OneUploadTwoCalls ==
  /\ call.op = "getOrUpload"
  /\ call.fromCache
  /\ call.fileId = 1
  /\ uploads = 1
  /\ DOMAIN cache = {call.hash}
  /\ cache[call.hash].age = 0

\* C15: when runCleanup returns, no entry older than the retention window
\* remains, deleteFn was called with the fileId of each such entry, also the
\* entries whose deleteFn failed are gone, and the entries inside the window
\* are as they were
CleanupEvictsExpiredOnly ==
  call.op = "runCleanup" =>
    /\ \A h \in DOMAIN cache : ~(cache[h].age * DAY_MS > CACHE_TTL_MS)
    /\ \A h \in DOMAIN call.before :
         IF call.before[h].age * DAY_MS > CACHE_TTL_MS
         THEN h \notin DOMAIN cache /\ call.before[h].fileId \in call.deleteCalls
         ELSE h \in DOMAIN cache /\ cache[h] = call.before[h]
    /\ \A id \in call.deleteCalls :
         \E h \in DOMAIN call.before :
           call.before[h].fileId = id /\ call.before[h].age * DAY_MS > CACHE_TTL_MS

\* a cleanup removed an expired entry whose remote deletion failed and kept
\* an entry exactly seven days old
CleanupWithFailedDelete ==
  /\ call.op = "runCleanup"
  /\ call.deleteFailed # {}
  /\ \E h \in DOMAIN cache : cache[h].age = CACHE_TTL_DAYS
  /\ Cardinality(DOMAIN call.before) = 2

\* C16: a subject and the same subject behind any sequence of RE:, FW: and
\* FWD: prefixes have the same computeSubjectHash
PrefixedSubjectSameHash ==
  mailSubject.rawHash = mailSubject.baseHash

\* a mailSubject that itself starts with a prefix, behind two more prefixes of
\* different kinds
NestedPrefixes ==
  /\ mailSubject.count = 2
  /\ mailSubject.base # << >>
  /\ extractBaseSubject(mailSubject.base) # mailSubject.base
  /\ extractBaseSubject(mailSubject.base) # << >>
  /\ lowerChars(SubSeq(mailSubject.raw, 1, 2)) = <<"r", "e">>
  /\ extractBaseSubjectOnce(mailSubject.raw) # extractBaseSubject(mailSubject.raw)

\* C17: every recordPdfsInThread call keeps the entries the thread already
\* has, in place and unaltered, appends the PDFs of the call whose hash the
\* thread does not hold yet and no other, and leaves the other threads as
\* they are; no thread ever holds two entries with the same hash
ThreadPdfsDeduplicated ==
  [][\A k \in DOMAIN threads' :
       LET old == IF k \in DOMAIN threads THEN threads[k].pdf_context ELSE << >>
           new == threads'[k].pdf_context
           hashesOf(context) == {context[i].hash : i \in DOMAIN context}
           called == {computePdfHash(recording'.pdfs[i].buffer) : i \in DOMAIN recording'.pdfs}
       IN /\ Len(new) >= Len(old)
          /\ SubSeq(new, 1, Len(old)) = old
          /\ \A i, j \in DOMAIN new : new[i].hash = new[j].hash => i = j
          /\ hashesOf(new) =
               IF k = computeSubjectHash(recording'.subject)
               THEN hashesOf(old) \cup called ELSE hashesOf(old)]_vars

\* a reply whose subject carries a prefix brought, under another filename, a
\* PDF the thread already held, and a new one
ReplyWithKnownPdf ==
  /\ extractBaseSubject(recording.subject) # recording.subject
  /\ Len(recording.pdfs) = 2
  /\ LET thread == threads[computeSubjectHash(recording.subject)]
     IN /\ Len(thread.pdf_context) = 2
        /\ thread.base_subject = <<"a">>
        /\ thread.pdf_context[1].hash = computePdfHash(recording.pdfs[1].buffer)
        /\ thread.pdf_context[1].filename # recording.pdfs[1].filename
        /\ thread.pdf_context[2].hash = computePdfHash(recording.pdfs[2].buffer)

\* C18 as stated: for every page count, the parts returned by splitPdf cover
\* pages 1..P contiguously and in order, their page counts sum to P, none
\* has more than 100 pages and none is empty
PartsCoverEveryDocument ==
  split.pc = "returned" => CoversAllPages(split.parts, split.totalPages)

\* C18 amended: the same for every document of at least one page
PartsCoverDocument ==
  (split.pc = "returned" /\ split.totalPages >= 1)
    => CoversAllPages(split.parts, split.totalPages)

\* a document whose last part is shorter than the others
SplitInThreeParts ==
  /\ split.pc = "returned"
  /\ split.totalPages = 250
  /\ Len(split.parts) = 3
  /\ pagesOf(split.parts[3]) < pagesOf(split.parts[1])

\* C19: a document of more than 100 pages is split into ceil(P/100) parts,
\* each part carries the number of parts produced as totalParts, and the
\* page counts of any two parts differ by at most one
PartsAreEven ==
  (split.pc = "returned" /\ split.totalPages > 100) =>
    /\ 100 * (Len(split.parts) - 1) < split.totalPages
    /\ split.totalPages <= 100 * Len(split.parts)
    /\ \A k \in DOMAIN split.parts : split.parts[k].totalParts = Len(split.parts)
    /\ \A j, k \in DOMAIN split.parts :
         pagesOf(split.parts[j]) - pagesOf(split.parts[k]) <= 1

\* C20 as stated: whatever the attachments, processImport returns success
\* exactly when a document was imported or found to be a duplicate, or no
\* error was counted
SuccessIffResultsOrNoErrors ==
  importRun.pc = "returned" =>
    (importRun.success <=>
       \/ importRun.stats.imported > 0
       \/ importRun.stats.duplicates > 0
       \/ importRun.stats.errors = 0)

\* C20 amended: the same when at least one PDF candidate was collected;
\* without a candidate, or with a ZIP that cannot be extracted, the result
\* is a failure that carries an error message and counts no error
SuccessIffResultsOrNoErrorsWithPdfs ==
  importRun.pc = "returned" =>
    IF importRun.stats.total > 0
    THEN /\ importRun.error = ""
         /\ importRun.success <=>
              \/ importRun.stats.imported > 0
              \/ importRun.stats.duplicates > 0
              \/ importRun.stats.errors = 0
    ELSE ~importRun.success /\ importRun.error # "" /\ importRun.stats.errors = 0

\* an import with an error and a duplicate, and nothing imported, succeeds
PartialSuccess ==
  /\ importRun.pc = "returned"
  /\ importRun.stats.errors > 0
  /\ importRun.stats.duplicates > 0
  /\ importRun.stats.imported = 0
  /\ importRun.success

\* C21: when processImport has returned, every candidate PDF of the import
\* (each PDF attachment, each PDF of an archive that was extracted) has been
\* processed and has its outcome, whatever failed for another attachment or
\* another PDF.
EveryCandidateGetsOutcome ==
  importRun.pc = "returned" =>
    LET att == importRun.attachments
        candidates[k \in 0..Len(att)] ==
          IF k = 0 THEN 0 ELSE candidates[k - 1] + att[k].pdfs
    IN importRun.i = candidates[Len(att)]

LimitDropsAreErrors == zip.stats.errorCount >= zip.overLimit

\* C24: when the model answers the preselection prompt, the stage succeeds
\* whatever ids it names; the ids of its output are ids of the catalog it
\* read, the others are dropped; and the readers that are started are readers
\* of documents of the store, one at most for each.
PreselectionWithinCatalog ==
  (question.phase = "done" /\ question.docs # {} /\ question.pre.ok) =>
    LET preselection == runPreselection(question.docs, question.pre)
        started == runReaders(preselection.selectedDocuments, question.docs,
                              question.relevant)
    IN /\ preselection.success
       /\ preselection.selectedDocuments \subseteq question.docs
       /\ preselection.selectedDocuments =
            {d \in question.pre.selected_documents : d \in question.docs}
       /\ question.result.outcome # "preselection_failed"
       /\ DOMAIN started.results \subseteq question.docs
       /\ question.result.calls.reader \in {0, Cardinality(DOMAIN started.results)}

\* the model named a document of the catalog and an id that is not in it: one
\* reader ran
GhostIdDropped ==
  /\ question.phase = "done"
  /\ question.pre.ok
  /\ question.docs = {"d1"}
  /\ question.pre.selected_documents = {"d1", "ghost"}
  /\ question.result.calls.reader = 1

\* C25: when the readers ran and every one of them reported relevant = false,
\* whatever extractions they reported, the compiler model is not called and
\* the reply is the one that says that no pertinent information was found.
NoRelevantReaderSkipsCompiler ==
  LET preselection == runPreselection(question.docs, question.pre)
  IN (/\ question.phase = "done"
      /\ question.result.calls.reader > 0
      /\ \A d \in preselection.selectedDocuments : ~question.relevant[d].relevant)
     => /\ question.result.calls.compiler = 0
        /\ question.result.outcome = "no_extractions"

\* C26: runReaders pushes the results of a batch when it settles and returns
\* one result for each document found, in their order; the result of a reader
\* is what that reader returned, and a reader whose request failed, timed out
\* or gave an answer that cannot be parsed has relevant = false, confidence 0
\* and no extraction, whatever happened to the other readers.
OneResultPerDocument ==
  /\ readers.pc \in {"batch", "sleep"} => Len(readers.results) = readers.i
  /\ readers.pc = "returned" => Len(readers.results) = Len(readers.reader)
  /\ \A k \in DOMAIN readers.results :
       /\ readers.results[k].documentId = k
       /\ readers.results[k] = readers.reader[k].result
       /\ readers.results[k].error # "" =>
            /\ ~readers.results[k].relevant
            /\ readers.results[k].confidence = 0
            /\ readers.results[k].extractions = 0

\* runReaders has returned the results of two batches: the first reader timed
\* out, the second failed to parse its answer, the third and the one of the
\* second batch returned what they found
FailuresBesideResults ==
  /\ readers.pc = "returned"
  /\ Len(readers.results) > MAX_CONCURRENT_READERS
  /\ readers.results[1].error = "Reader timeout"
  /\ readers.results[2].error = "Failed to parse reader response"
  /\ readers.results[3].relevant
  /\ readers.results[Len(readers.results)].relevant

\* C27: at any time at most MAX_CONCURRENT_READERS requests of readers are
\* outstanding at the provider, and a batch after the first starts only after
\* the sleep that follows the end of the batch before it.
AtMostFiveOutstanding ==
  /\ Cardinality({d \in DOMAIN readers.reader :
                    readers.reader[d].pc = "getSignedUrl" \/ readers.reader[d].outstanding})
       <= MAX_CONCURRENT_READERS
  /\ readers.pc = "batch" => readers.slept * MAX_CONCURRENT_READERS = readers.i

\* C28: a reader that has been started returns, and runReaders returns, even
\* if the provider never answers a request.
ReadStageTerminates ==
  /\ \A d \in 1..MaxDocs :
       (IF d \in DOMAIN readers.reader
        THEN readers.reader[d].pc \in {"getSignedUrl", "race"} ELSE FALSE)
         ~> (IF d \in DOMAIN readers.reader THEN readers.reader[d].pc = "done" ELSE TRUE)
  /\ <>(readers.pc = "returned")

\* C29: the tier is selected by tag, in any case and at any place of the
\* subject: (pro) or (medium) selects the mid-tier model, (max) or (high) the
\* top-tier model, no tag the default one; (add) selects the Import flow, its
\* absence the Question flow; every stage that ran used the selected model
TierFollowsTag ==
  flow.pc \notin {"idle", "received"} =>
    LET mid == includesTag(flow.subject, "(pro)") \/ includesTag(flow.subject, "(medium)")
        top == includesTag(flow.subject, "(max)") \/ includesTag(flow.subject, "(high)")
        selected == getModelName(flow.modelLevel)
    IN /\ mid /\ ~top => selected = "mistral-medium-latest"
       /\ top /\ ~mid => selected = "mistral-large-latest"
       /\ ~mid /\ ~top => selected = "mistral-small-latest"
       /\ flow.flowType = IF includesTag(flow.subject, "(add)") THEN "import" ELSE "question"
       /\ \A s \in Stages : flow.model[s] \in {"none", selected}

\* C30: on the success path of processEmail the reply is sent, then the id is
\* appended to the ledger, then the item file is deleted: the step that deletes
\* the file at the end of the path finds the id in the ledger, and the step
\* that adds an id to the ledger follows the successful sending of its reply
SentThenLedgerThenUnlink ==
  [][\A c \in Cycles :
       LET id == ItemOf(c)
       IN /\ (cyc[c].pc = "unlink" /\ file'[id].loc = "deleted" /\ file[id].loc # "deleted")
               => isAlreadyProcessed(ledger, id)
          /\ (cyc[c].pc \in {"sendEmail", "markAsProcessed", "unlink"}
              /\ ~isAlreadyProcessed(ledger, id) /\ isAlreadyProcessed(ledger', id))
               => /\ cyc[c].pc = "markAsProcessed"
                  /\ sent[id] > 0
          /\ (cyc'[c].pc = "markAsProcessed" /\ cyc[c].pc # "markAsProcessed")
               => /\ cyc[c].pc = "sendEmail"
                  /\ sent'[id] = sent[id] + 1
          /\ (cyc'[c].pc = "unlink" /\ cyc[c].pc # "unlink")
               => cyc[c].pc = "markAsProcessed"]_vars

\* an item answered once, recorded in the ledger, its file deleted, the cycle over
AnsweredRecordedDeleted ==
  \E id \in Items :
    /\ file[id].loc = "deleted"
    /\ isAlreadyProcessed(ledger, id)
    /\ sent[id] = 1
    /\ \A c \in Cycles : cyc[c].pc = "idle"

\* C31: after any sequence of markAsProcessed calls the ledger holds at most
\* LEDGER_CAP ids, they are the ids with the most recent timestamps, and the id
\* just marked is among them; an item whose id is in the ledger is deleted
\* without a pipeline run or a reply
LedgerKeepsMostRecent ==
  LET ids == processedIds.ids
      stamp == processedIds.stamp
      kept == {ids[k] : k \in DOMAIN ids}
      item == processedIds.item
  IN /\ Len(ids) <= LEDGER_CAP
     /\ Len(ids) = IF Len(stamp) <= LEDGER_CAP THEN Len(stamp) ELSE LEDGER_CAP
     /\ Cardinality(kept) = Len(ids)
     /\ kept \subseteq DOMAIN stamp
     /\ \A dropped \in DOMAIN stamp \ kept : \A id \in kept : stamp[id] > stamp[dropped]
     /\ processedIds.last # 0 => processedIds.last \in kept
     /\ item.id # 0 =>
          /\ item.present = isAlreadyProcessed(ids, item.id)
          /\ item.present => item.loc = "deleted" /\ ~item.dispatched

\* a full ledger lost its oldest id to a new one, and an item whose id is in
\* it was met afterwards
OldestEvictedAndItemSkipped ==
  /\ Len(processedIds.ids) = LEDGER_CAP
  /\ Len(processedIds.stamp) > LEDGER_CAP
  /\ processedIds.marks > 0
  /\ processedIds.item.present

\* C32 as stated: an exception raised while processing an item is caught at
\* the boundary of the processor: the file stays in the input directory, the
\* ledger is unchanged, the remaining items of the cycle are still processed,
\* and the process keeps polling
ExceptionLeavesItemAndLedger ==
  [][loop.pc = "loop" /\ loop' # loop =>
       LET x == loop.emailPaths[loop.i]
       IN /\ loop'.threw # "none" =>
               /\ loop'.loc[x] = "input"
               /\ loop'.ids = loop.ids
               /\ loop'.polling
               /\ loop.i < Len(loop.emailPaths) => loop'.pc = "loop" /\ loop'.i = loop.i + 1
          /\ loop'.pc = "idle" =>
               /\ ~loop'.isProcessing
               /\ loop'.handled = {loop.emailPaths[k] : k \in DOMAIN loop.emailPaths}]_vars

\* C32 amended: the same, the ledger being unchanged unless the exception
\* comes from the deletion of the file, after markAsProcessed wrote the id
ExceptionLeavesItem ==
  [][loop.pc = "loop" /\ loop' # loop =>
       LET x == loop.emailPaths[loop.i]
       IN /\ loop'.threw # "none" =>
               /\ loop'.loc[x] = "input"
               /\ loop'.ids = IF loop'.threw = "unlink throws" THEN loop.ids \cup {x}
                              ELSE loop.ids
               /\ loop'.polling
               /\ loop.i < Len(loop.emailPaths) => loop'.pc = "loop" /\ loop'.i = loop.i + 1
          /\ loop'.pc = "idle" =>
               /\ ~loop'.isProcessing
               /\ loop'.handled = {loop.emailPaths[k] : k \in DOMAIN loop.emailPaths}]_vars

\* a cycle over two files is over: the pipeline threw on the first one, which
\* is still there, and the second one was answered
ThrewThenAnswered ==
  /\ loop.pc = "idle" /\ loop.rounds = 1 /\ Len(loop.emailPaths) >= 2
  /\ loop.loc[1] = "input" /\ loop.sent[1] = 0 /\ 1 \notin loop.ids
  /\ loop.loc[2] = "deleted" /\ loop.sent[2] = 1 /\ 2 \in loop.ids
  /\ loop.handled = {1, 2}

\* C33: stats.splitParts is the number of parts produced from the PDFs that
\* were divided in more than one part, the documents flagged wasSplit are
\* those parts, and a PDF that is not divided adds nothing to splitParts
SplitPartsCountDividedOnly ==
  /\ importRun.stats.splitParts = importRun.divided
  /\ importRun.wasSplit = importRun.divided

\* C35: every buffer the import uploads to the provider has at most
\* MAX_PAGES_PER_PART pages, whatever the size in bytes of its PDF
UploadedPartsWithinPageLimit ==
  importRun.uploadedPages <= MAX_PAGES_PER_PART

\* C34: whenever an entry leaves the index because its lastUsedAt is older
\* than the retention window, removed by runCleanup or replaced by getOrUpload,
\* the deletion of its remote file is attempted
ExpiredEntryRemoteDeleted ==
  call.op \in {"getOrUpload", "runCleanup"} =>
    \A h \in DOMAIN call.before :
      (/\ isExpired(call.before[h])
       /\ \/ h \notin DOMAIN cache
          \/ cache[h].fileId # call.before[h].fileId)
        => call.before[h].fileId \in call.deleteCalls

\* C39: when uploadFn fails inside getOrUpload the call is rejected and the
\* index is as it was before the call, for that hash and for every other
FailedUploadLeavesIndex ==
  call.op = "getOrUpload" /\ call.rejected => cache = call.before

\* the upload failed for a PDF whose entry had expired, beside the entry of
\* another PDF
FailedUploadOnExpiredEntry ==
  /\ call.op = "getOrUpload" /\ call.rejected
  /\ call.hash \in DOMAIN cache /\ isExpired(cache[call.hash])
  /\ \E h \in DOMAIN cache : h # call.hash

\* C38: when the reference of a cached handle cannot be resolved,
\* processMultiDocumentQA invalidates the entry and uploads the bytes once
\* more: invalidateEntry removes the entry of that hash and no other, from
\* then on the index has no entry giving the stale handle for the hash, and
\* the request proceeds with the handle of the new upload
StaleHandleInvalidated ==
  /\ call.op = "invalidateEntry" =>
       /\ call.hash \notin DOMAIN cache
       /\ DOMAIN cache = DOMAIN call.before \ {call.hash}
       /\ \A h \in DOMAIN cache : cache[h] = call.before[h]
  /\ multiQa.pc \in {"uploadPdf", "getSignedUrlAgain", "proceed", "failed"}
     /\ multiQa.staleId # 0 =>
       ~(/\ multiQa.hash \in DOMAIN cache
         /\ cache[multiQa.hash].fileId = multiQa.staleId)
  /\ multiQa.pc = "proceed" /\ multiQa.staleId # 0 =>
       /\ multiQa.reuploads = 1
       /\ multiQa.fileId = multiQa.newFileId /\ multiQa.url = multiQa.newFileId
       /\ multiQa.fileId # multiQa.staleId
       /\ ~multiQa.fromCache

\* a handle served from the cache was stale, beside the entry of another PDF,
\* and the request went on with the new upload
StaleHitReuploaded ==
  /\ multiQa.pc = "proceed" /\ multiQa.staleId # 0
  /\ multiQa.staleId \in {call.before[h].fileId : h \in DOMAIN call.before}
  /\ call.op = "invalidateEntry"
  /\ \E h \in DOMAIN cache : h # multiQa.hash

\* C36: a pipeline attempt whose hard timeout has fired never leads to a reply
\* or to a ledger entry: the step of the timeout only writes the retry
\* bookkeeping or moves the item to quarantine, the end of the abandoned
\* execution sends nothing and records nothing, and a reply or a ledger entry
\* for an item only comes from a cycle that got the result of an attempt
\* before its timeout
TimedOutAttemptNeverAnswers ==
  [][/\ \A c \in Cycles :
          cyc[c].pc = "awaitPipeline" /\ cyc'[c].pc \notin {"awaitPipeline", "sendEmail"} =>
            /\ UNCHANGED <<sent, ledger>>
            /\ \A d \in Cycles : cyc'[d].pc \notin {"sendEmail", "markAsProcessed", "unlink"}
     /\ background' # background => UNCHANGED <<sent, ledger>>
     /\ \A id \in Items :
          sent'[id] # sent[id] \/ isAlreadyProcessed(ledger', id) # isAlreadyProcessed(ledger, id) =>
            \E c \in Cycles : /\ cyc[c].pc \in {"sendEmail", "markAsProcessed"}
                              /\ ItemOf(c) = id]_vars

\* the last retry of an item timed out, it went to quarantine and its
\* abandoned executions came to their end: no reply, nothing in the ledger
TimedOutThenFinishedUnanswered ==
  \E id \in Items :
    /\ up /\ id \notin background
    /\ file[id].loc = "quarantine" /\ file[id].prefix = "max_retries_exceeded"
    /\ sent[id] = 0 /\ ~isAlreadyProcessed(ledger, id)

\* C37: every cycle that sets isProcessing comes to its end and clears it,
\* whether its items are answered, fail, time out or throw, and even if the
\* pipeline of an item never settles: a later tick can start a new cycle
EveryCycleClearsFlag == isProcessing ~> ~isProcessing

\* a cycle ended with the flag cleared while the pipeline execution of its
\* item, abandoned at the timeout, had still not settled
CycleEndedPipelineStillRunning ==
  /\ ~isProcessing /\ Running = {}
  /\ background # {}

\* C40: every reply is addressed to the sender of the item it answers, and
\* that address passed the whitelist check of the cycle that sends it: a
\* cycle waits for a pipeline or sends only for an item whose sender is
\* allowed by the whitelist the cycle loaded, and every reply is sent by such
\* a cycle for its current item
RepliesOnlyToCheckedSender ==
  /\ [](\A c \in Cycles :
          cyc[c].pc \in {"awaitPipeline", "sendEmail"} =>
            /\ senderEmail(c) # NoSender
            /\ isEmailAllowed(senderEmail(c), cyc[c].whitelist))
  /\ [][\A id \in Items :
          sent'[id] # sent[id] =>
            \E c \in Cycles :
              /\ cyc[c].pc = "sendEmail" /\ ItemOf(c) = id
              /\ mail[id].from = senderEmail(c)
              /\ isEmailAllowed(senderEmail(c), cyc[c].whitelist)
              /\ sent'[id] = sent[id] + 1]_vars

\* a reply went to a sender whom the whitelist of the cycle allows by the
\* domain
ReplyToAllowedDomain ==
  \E c \in Cycles :
    /\ cyc[c].pc = "markAsProcessed"
    /\ sent[ItemOf(c)] = 1
    /\ senderEmail(c) = Bob
    /\ isEmailAllowed(Bob, cyc[c].whitelist)

====
